---- MODULE Spec2Model ----
(***************************************************************************)
(* Model of the streaming core of the chat client:                         *)
(*   - streamApiRequest (client/src/api/ollama.ts): the SSE frame decoder  *)
(*     that turns the chunks of a response body into StreamEvents;         *)
(*   - BotResponse (client/src/components/BotResponce.tsx): the response   *)
(*     accumulator with its retry, stop and restart logic;                 *)
(*   - the older BotResponse kept in client/src/components/DotLoader.tsx.  *)
(* Text is a sequence of one-character strings, so that split, trim,       *)
(* startsWith and slice are computed character by character.               *)
(***************************************************************************)
EXTENDS Integers, Sequences, FiniteSets, TLC

VARIABLES
    \* ---- streamApiRequest, one response body ----
    records,        \* the records the server wrote (input)
    stream,         \* their text on the wire
    twin,           \* the same text with every malformed payload made valid JSON
    pos,            \* number of characters the reader has handed out
    buffer,         \* `buffer` (ollama.ts:80)
    emitted,        \* the StreamEvents passed to onEvent, in call order
    consumedLines,  \* every line the `for` loop has processed, in order
    twinBuffer,     \* `buffer` of the decoder fed the twin text
    twinEmitted,    \* onEvent calls of the decoder fed the twin text
    joined,         \* number of lines that began in one chunk and ended in a later one
    call,           \* the call of streamApiRequest: fetches issued, response, error thrown
    dpc             \* "fetching" (awaiting fetch), "reading" (awaiting reader.read()),
                    \* "done" (loop left, promise resolved), "rejected", "idle"

decVars == <<records, stream, twin, pos, buffer, emitted, consumedLines,
             twinBuffer, twinEmitted, joined, call, dpc>>

VARIABLES
    \* ---- BotResponse (BotResponce.tsx), one component instance ----
    bot,            \* its React state and refs, its requests, its retry timers
                    \* and the calls it made to onComplete and onError
    hist,           \* history of the current run (since mount or Try Again)
    body            \* the events of the response body being read, in order

botVars == <<bot, hist, body>>

VARIABLES
    \* ---- the older BotResponse (DotLoader.tsx), one component instance ----
    old,            \* its React state and refs, its requests, its retry timers
    oldRun          \* number of runs (mount, Try Again) it has begun

oldVars == <<old, oldRun>>

VARIABLES
    home,           \* the home page (app/page.tsx) and the BotResponse it renders
    chat            \* the chat page (pages/Chat.tsx)

appVars == <<home, chat>>

VARIABLES
    \* ---- generateCompletionStream (api client), one call ----
    gen             \* the text the server streams, the read loop's position
                    \* and buffer, and the calls made to onChunk and onError

genVars == <<gen>>

vars == <<decVars, botVars, oldVars, appVars, genVars>>

----------------------------------------------------------------------------
(* Bounds *)

MaxRecords == 2     \* records of one response body
MaxBody == 64       \* characters of one response body
MaxChunk == 36      \* characters of one chunk
MaxRequests == 4    \* fetches one component instance may issue
MaxRuns == 2        \* runs (mount, Try Again) of one component instance
MaxEvents == 3      \* events one response body may carry
MaxText == 1        \* characters of response text the server streams per buffer
MaxSends == 2       \* messages the user sends on the home page
MaxGenLines == 3    \* lines of one body read by generateCompletionStream
MaxGenChunk == 42   \* characters of one chunk read by generateCompletionStream

----------------------------------------------------------------------------
(* Text helpers: String.prototype.split/trim/startsWith/slice *)

NL == "\n"

Whitespace == {" ", "\t", "\r", "\n"}

RECURSIVE SplitFrom(_, _, _)
\* s.split('\n'), scanning from index i with the segment `cur` in progress
SplitFrom(s, i, cur) ==
    IF i > Len(s) THEN <<cur>>
    ELSE IF s[i] = NL THEN <<cur>> \o SplitFrom(s, i + 1, <<>>)
    ELSE SplitFrom(s, i + 1, Append(cur, s[i]))

Split(s) == SplitFrom(s, 1, <<>>)

RECURSIVE TrimStart(_)
TrimStart(s) ==
    IF s # <<>> /\ Head(s) \in Whitespace THEN TrimStart(Tail(s)) ELSE s

RECURSIVE TrimEnd(_)
TrimEnd(s) ==
    IF s # <<>> /\ s[Len(s)] \in Whitespace
    THEN TrimEnd(SubSeq(s, 1, Len(s) - 1)) ELSE s

Trim(s) == TrimEnd(TrimStart(s))

StartsWith(s, p) == Len(s) >= Len(p) /\ SubSeq(s, 1, Len(p)) = p

\* s.slice(n): the text from 0-based index n on
Slice(s, n) == SubSeq(s, n + 1, Len(s))

RECURSIVE Join(_)
\* the lines of a sequence, each followed by its newline
Join(ls) == IF ls = <<>> THEN <<>> ELSE Head(ls) \o <<NL>> \o Join(Tail(ls))

----------------------------------------------------------------------------
(* JavaScript values held by the fields of a StreamEvent *)

Undefined == [t |-> "undefined", n |-> 0, s |-> <<>>]
StringVal(s) == [t |-> "string", n |-> 0, s |-> s]
NumberVal(n) == [t |-> "number", n |-> n, s |-> <<>>]
ObjectVal == [t |-> "object", n |-> 0, s |-> <<>>]
NullVal == [t |-> "null", n |-> 0, s |-> <<>>]
NaNVal == [t |-> "NaN", n |-> 0, s |-> <<>>]
SyntaxError == [t |-> "SyntaxError", n |-> 0, s |-> <<>>]

Digits == {"0", "1", "2", "3", "4", "5", "6", "7", "8", "9"}

DigitValue(c) ==
    CASE c = "0" -> 0 [] c = "1" -> 1 [] c = "2" -> 2 [] c = "3" -> 3
      [] c = "4" -> 4 [] c = "5" -> 5 [] c = "6" -> 6 [] c = "7" -> 7
      [] c = "8" -> 8 [] c = "9" -> 9

RECURSIVE DigitsValue(_, _)
DigitsValue(s, acc) ==
    IF s = <<>> THEN acc ELSE DigitsValue(Tail(s), 10 * acc + DigitValue(Head(s)))

IsDigits(s) == s # <<>> /\ \A i \in 1..Len(s) : s[i] \in Digits

RECURSIVE LeadingDigits(_)
LeadingDigits(s) ==
    IF s # <<>> /\ Head(s) \in Digits THEN <<Head(s)>> \o LeadingDigits(Tail(s))
    ELSE <<>>

\* JSON.parse on the JSON texts the model's server writes: an integer
\* literal, {} and null parse; any other text throws SyntaxError.
JSONParse(s) ==
    IF IsDigits(s) /\ (Len(s) = 1 \/ Head(s) # "0") THEN NumberVal(DigitsValue(s, 0))
    ELSE IF s = <<"{", "}">> THEN ObjectVal
    ELSE IF s = <<"n", "u", "l", "l">> THEN NullVal
    ELSE SyntaxError

\* parseInt(s, 10) on unsigned text: the leading digits, NaN without any
ParseInt(s) ==
    IF LeadingDigits(s) = <<>> THEN NaNVal ELSE NumberVal(DigitsValue(LeadingDigits(s), 0))

----------------------------------------------------------------------------
(* streamApiRequest: the body of the read loop *)

sEvent == <<"e", "v", "e", "n", "t", ":">>
sData == <<"d", "a", "t", "a", ":">>
sId == <<"i", "d", ":">>
sRetry == <<"r", "e", "t", "r", "y", ":">>
sDone == <<"d", "a", "t", "a", ":", " ", "[", "D", "O", "N", "E", "]">>

\* `let currentEvent: Partial<StreamEvent> = {}`
EmptyEvent == [event |-> Undefined, data |-> Undefined, id |-> Undefined,
               retry |-> Undefined]

\* `currentEvent.event && currentEvent.data !== undefined`
IsComplete(cur) ==
    /\ cur.event.t = "string" /\ cur.event.s # <<>>
    /\ cur.data # Undefined

\* the try/catch around JSON.parse(dataStr)
ParseDataBad(dataStr) ==
    IF JSONParse(dataStr) = SyntaxError THEN Undefined ELSE JSONParse(dataStr)

ParseData(dataStr) ==
    IF JSONParse(dataStr) = SyntaxError THEN StringVal(dataStr) ELSE JSONParse(dataStr)

\* one iteration of `for (const line of lines)`; st = [cur, out], out being
\* the events passed to onEvent so far, in call order
ProcessLineBad(st, line) ==
    LET trimmed == Trim(line) IN
    IF trimmed = <<>> \/ trimmed = sDone THEN
        IF IsComplete(st.cur)
        THEN [cur |-> EmptyEvent, out |-> <<st.cur>> \o st.out]
        ELSE st
    ELSE IF StartsWith(trimmed, sEvent) THEN
        [st EXCEPT !.cur.event = StringVal(Trim(Slice(trimmed, 6)))]
    ELSE IF StartsWith(trimmed, sData) THEN
        [st EXCEPT !.cur.data = ParseData(Trim(Slice(trimmed, 5)))]
    ELSE IF StartsWith(trimmed, sId) THEN
        [st EXCEPT !.cur.id = StringVal(Trim(Slice(trimmed, 3)))]
    ELSE IF StartsWith(trimmed, sRetry) THEN
        [st EXCEPT !.cur.retry = ParseInt(Trim(Slice(trimmed, 6)))]
    ELSE st

ProcessLine(st, line) ==
    LET trimmed == Trim(line) IN
    IF trimmed = <<>> \/ trimmed = sDone THEN
        IF IsComplete(st.cur)
        THEN [cur |-> EmptyEvent, out |-> Append(st.out, st.cur)]
        ELSE st
    ELSE IF StartsWith(trimmed, sEvent) THEN
        [st EXCEPT !.cur.event = StringVal(Trim(Slice(trimmed, 6)))]
    ELSE IF StartsWith(trimmed, sData) THEN
        [st EXCEPT !.cur.data = ParseData(Trim(Slice(trimmed, 5)))]
    ELSE IF StartsWith(trimmed, sId) THEN
        [st EXCEPT !.cur.id = StringVal(Trim(Slice(trimmed, 3)))]
    ELSE IF StartsWith(trimmed, sRetry) THEN
        [st EXCEPT !.cur.retry = ParseInt(Trim(Slice(trimmed, 6)))]
    ELSE st

RECURSIVE ProcessLines(_, _)
ProcessLines(st, lines) ==
    IF lines = <<>> THEN st
    ELSE ProcessLines(ProcessLine(st, Head(lines)), Tail(lines))

\* `buffer = lines.pop() || ''`
CarryOverBad(segments) == <<>>

CarryOver(segments) == segments[Len(segments)]

\* the record in progress at the start of a chunk's `for` loop
ChunkStartEvent == EmptyEvent

\* One pass of the while-loop body for a chunk: the new buffer, the lines
\* processed and the events passed to onEvent, in order.
ProcessChunk(buf, chunk) ==
    LET segments == Split(buf \o chunk)
        lines == SubSeq(segments, 1, Len(segments) - 1)
        st == ProcessLines([cur |-> ChunkStartEvent, out |-> <<>>], lines)
    IN  [buffer |-> CarryOver(segments),
         lines |-> lines,
         events |-> IF IsComplete(st.cur) THEN Append(st.out, st.cur) ELSE st.out]

----------------------------------------------------------------------------
(* streamApiRequest: the fetch and the checks of its response *)

\* what `await fetch(...)` resolves with: ok, status, statusText, body (a
\* readable body or null)
NoResponse == [ok |-> FALSE, status |-> 0, statusText |-> "", body |-> FALSE]

Responses ==
    { [ok |-> TRUE, status |-> 200, statusText |-> "OK", body |-> TRUE],
      [ok |-> TRUE, status |-> 204, statusText |-> "No Content", body |-> FALSE],
      [ok |-> FALSE, status |-> 500, statusText |-> "Internal Server Error",
       body |-> TRUE],
      [ok |-> FALSE, status |-> 404, statusText |-> "Not Found", body |-> FALSE] }

NoError == ""

\* `HTTP ${response.status}: ${response.statusText}`
HttpErrorMessage(resp) == "HTTP " \o ToString(resp.status) \o ": " \o resp.statusText

NoBodyMessage == "No response body"

\* message of the TypeError a failing fetch rejects with
FetchFailedMessage == "Failed to fetch"

\* the two checks after the fetch: the message of the Error thrown, or NoError
ResponseErrorBad(resp) ==
    IF ~resp.body THEN NoBodyMessage ELSE NoError

ResponseError(resp) ==
    IF ~resp.ok THEN HttpErrorMessage(resp)
    ELSE IF ~resp.body THEN NoBodyMessage
    ELSE NoError

\* streamApiRequest was called: its fetch is issued (ollama.ts:59)
NewCall == [fetches |-> 1, response |-> NoResponse, error |-> NoError]

NoCall == [fetches |-> 0, response |-> NoResponse, error |-> NoError]

----------------------------------------------------------------------------
(* The response bodies fed to the decoder *)

\* A record on the wire: event name, data payload, an optional id or retry
\* line after the data line, and the terminator that ends the record: a blank
\* line ("blank") or `data: [DONE]` ("done"). The last record of a body may
\* lack its terminator ("none"), and also the newline of its data line ("cut").
Payload1 == <<"1">>
Payload2 == <<"2">>
PayloadBad == <<"{", "x">>
PayloadTwin == <<"{", "}">>

RecordMenu ==
    { [ev |-> "a", payload |-> Payload1, extra |-> "none", term |-> "blank"],
      [ev |-> "b", payload |-> Payload2, extra |-> "retry", term |-> "done"],
      [ev |-> "c", payload |-> PayloadBad, extra |-> "id", term |-> "blank"] }

UnterminatedMenu ==
    { [ev |-> "d", payload |-> Payload1, extra |-> "none", term |-> "none"],
      [ev |-> "e", payload |-> Payload2, extra |-> "none", term |-> "cut"] }

IsTerminated(r) == r.term \in {"blank", "done"}

IdText == <<"7">>
RetryText == <<"5">>

\* the text of one record, per the wire format
Encode(r, payload) ==
    sEvent \o <<" ", r.ev, NL>>
    \o sData \o <<" ">> \o payload \o (IF r.term = "cut" THEN <<>> ELSE <<NL>>)
    \o (CASE r.extra = "id" -> sId \o <<" ">> \o IdText \o <<NL>>
          [] r.extra = "retry" -> sRetry \o <<" ">> \o RetryText \o <<NL>>
          [] OTHER -> <<>>)
    \o (CASE r.term = "blank" -> <<NL>>
          [] r.term = "done" -> sDone \o <<NL>>
          [] OTHER -> <<>>)

TwinPayload(p) == IF p = PayloadBad THEN PayloadTwin ELSE p

RECURSIVE EncodeAll(_, _)
EncodeAll(rs, asTwin) ==
    IF rs = <<>> THEN <<>>
    ELSE Encode(Head(rs), IF asTwin THEN TwinPayload(Head(rs).payload)
                          ELSE Head(rs).payload)
         \o EncodeAll(Tail(rs), asTwin)

\* the bodies: up to MaxRecords records and MaxBody characters, every record
\* but the last one terminated
RecordSeqs ==
    { rs \in UNION { [1..n -> RecordMenu \cup UnterminatedMenu] : n \in 1..MaxRecords } :
        /\ \A i \in 1..(Len(rs) - 1) : IsTerminated(rs[i])
        /\ Len(EncodeAll(rs, FALSE)) <= MaxBody }

----------------------------------------------------------------------------
(* BotResponse (BotResponce.tsx) *)

maxRetries == 3

NullError == "null"
FailedAfterMsg == "Failed after 3 attempts"
UnknownErrorMsg == "Unknown streaming error"

\* `Connection lost. Retrying... (${retryCountRef.current}/${maxRetries})`
RetryMsg(k) ==
    CASE k = 1 -> "Connection lost. Retrying... (1/3)"
      [] k = 2 -> "Connection lost. Retrying... (2/3)"
      [] OTHER -> "Connection lost. Retrying... (n/3)"

\* messages of the errors streamApiRequest rejects with before the body is read
ConnectErrors == {"Failed to fetch", "HTTP 500: Internal Server Error"}
\* message of the error a failing reader.read() rejects with
ReadError == "network error"

\* a fetch issued by streamApiRequest and the state of its promise:
\* "fetching" (awaiting fetch), "reading" (awaiting reader.read()), "closed"
\* (settled); events counts the events its body has delivered so far
NewRequest == [st |-> "fetching", events |-> 0]
ClosedRequest == [st |-> "closed", events |-> 0]

IsLive(q) == q.st # "closed"

\* AbortController.abort() on the controller of request r (0: no controller).
\* The pending fetch or read rejects with an AbortError, and the catch block of
\* startStreaming returns at once (`if (err.name === 'AbortError') return`) in
\* a microtask of the task that called abort(), before any other task runs.
Abort(reqs, r) == IF r = 0 THEN reqs ELSE [reqs EXCEPT ![r] = ClosedRequest]

\* a code block (interface CodeBlock)
CodeBlock(language, content) ==
    [language |-> language, content |-> content,
     start_position |-> 0, end_position |-> 0]

\* The events the server streams to the component: the event name and the
\* fields of event.data the component reads. An absent field is "" or <<>>
\* for text and 0 for a number (both falsy, as undefined is); hasBlocks tells
\* whether data.code_blocks is present, an empty array being truthy. data tells
\* what event.data is: "object", "string" (the raw text of a data line that is
\* not JSON; every property read of it is undefined) or "null" (the JSON value
\* null; a property read of it throws a TypeError).
NoData ==
    [event |-> "", data |-> "object", token |-> <<>>, error |-> "", id |-> 0, language |-> "",
     content |-> <<>>, count |-> 0, tps |-> 0, elapsed |-> 0, duration |-> 0,
     detected |-> 0, hasBlocks |-> FALSE, blocks |-> <<>>]

StartEvent == [NoData EXCEPT !.event = "start"]
TokenEvent(t) == [NoData EXCEPT !.event = "token", !.token = t]
CountedTokenEvent(t, n) ==
    [NoData EXCEPT !.event = "token", !.token = t, !.count = n]
CodeStartEvent(id) == [NoData EXCEPT !.event = "code_start", !.id = id]
CodeTokenEvent(t) == [NoData EXCEPT !.event = "code_token", !.token = t]
CodeEndEvent(language, content) ==
    [NoData EXCEPT !.event = "code_end", !.language = language,
                   !.content = content]
ProgressEvent(n, tps, elapsed) ==
    [NoData EXCEPT !.event = "progress", !.count = n, !.tps = tps,
                   !.elapsed = elapsed]
MetadataEvent(duration, blocks) ==
    [NoData EXCEPT !.event = "metadata", !.duration = duration,
                   !.detected = Len(blocks), !.hasBlocks = TRUE,
                   !.blocks = blocks]
DoneEvent == [NoData EXCEPT !.event = "done"]
ErrorEvent(m) == [NoData EXCEPT !.event = "error", !.error = m]
\* a token event whose payload has a `content` field and no `token` field
ContentTokenEvent(t) == [NoData EXCEPT !.event = "token", !.content = t]
\* an event whose data is not an object
StringDataEvent(name) == [NoData EXCEPT !.event = name, !.data = "string"]
NullDataEvent(name) == [NoData EXCEPT !.event = name, !.data = "null"]

TokenTexts == {<<"A">>}
ErrorTexts == {"", "model failed"}

Events ==
    {StartEvent, DoneEvent}
    \cup {TokenEvent(t) : t \in TokenTexts}
    \cup {ErrorEvent(m) : m \in ErrorTexts}

\* the events streamed to BotResponse (BotResponce.tsx)
BotEvents == Events \cup {CodeTokenEvent(<<"x">>)}

\* the delays `1000 * retryCountRef.current` a retry timer can be set with
Delays == {1000 * k : k \in 1..maxRetries}

\* useState<StreamingStats>({tokenCount: 0, tokensPerSecond: 0, elapsedTime: 0});
\* totalDuration and codeBlocksDetected are absent at first
InitialStats ==
    [tokenCount |-> 0, tokensPerSecond |-> 0, elapsedTime |-> 0,
     totalDuration |-> 0, codeBlocksDetected |-> 0]

\* `a || b` on numbers
OrElse(a, b) == IF a # 0 THEN a ELSE b

\* reqs: the fetches issued so far, in order; timers: the number of pending
\* retry timers per delay; timerClosures: per delay and in the order they were
\* set, the `codeBlocks` captured by the startStreaming each pending timer
\* calls (the one whose attempt failed); onCompleteCalls, onErrorCalls: the arguments of the
\* calls made in the current run; closureCodeBlocks: the value of `codeBlocks`
\* in the closure of the handleStreamEvent given to streamApiRequest
BotInitState ==
    [phase |-> "new",
     isStreaming |-> FALSE,
     error |-> NullError,
     isComplete |-> FALSE,
     stats |-> InitialStats,
     codeBlocks |-> <<>>,
     activeCodeBlock |-> 0,
     responseBuffer |-> <<>>,
     currentCodeContent |-> <<>>,
     closureCodeBlocks |-> <<>>,
     retryCount |-> 0,
     abortController |-> 0,
     streamingActive |-> FALSE,
     reqs |-> <<>>,
     timers |-> [d \in Delays |-> 0],
     timerClosures |-> [d \in Delays |-> <<>>],
     onCompleteCalls |-> <<>>,
     onErrorCalls |-> <<>>]

\* cleanup (useCallback): abort the controller if there is one not yet aborted
CleanupBad(w) ==
    [w EXCEPT !.abortController = 0, !.streamingActive = FALSE,
              !.activeCodeBlock = 0]

Cleanup(w) ==
    [w EXCEPT !.reqs = Abort(w.reqs, w.abortController),
              !.abortController = 0,
              !.streamingActive = FALSE,
              !.activeCodeBlock = 0]

\* handleStreamEvent, case 'error'
OnErrorEventBad(w, ev) ==
    LET errorMsg == IF ev.error # "" THEN ev.error ELSE UnknownErrorMsg IN
    [w EXCEPT !.error = errorMsg,
              !.isStreaming = FALSE,
              !.onErrorCalls = Append(w.onErrorCalls, errorMsg)]

OnErrorEventNoDefault(w, ev) ==
    [w EXCEPT !.error = ev.error,
              !.isStreaming = FALSE,
              !.streamingActive = FALSE,
              !.onErrorCalls = Append(w.onErrorCalls, ev.error)]

OnErrorEvent(w, ev) ==
    LET errorMsg == IF ev.error # "" THEN ev.error ELSE UnknownErrorMsg IN
    [w EXCEPT !.error = errorMsg,
              !.isStreaming = FALSE,
              !.streamingActive = FALSE,
              !.onErrorCalls = Append(w.onErrorCalls, errorMsg)]

\* handleStreamEvent, case 'start'
OnStartEventBad(w) ==
    [w EXCEPT !.isStreaming = TRUE,
              !.error = NullError,
              !.isComplete = FALSE,
              !.codeBlocks = <<>>,
              !.activeCodeBlock = 0,
              !.retryCount = 0,
              !.streamingActive = TRUE]

OnStartEvent(w) ==
    [w EXCEPT !.isStreaming = TRUE,
              !.error = NullError,
              !.isComplete = FALSE,
              !.responseBuffer = <<>>,
              !.codeBlocks = <<>>,
              !.activeCodeBlock = 0,
              !.retryCount = 0,
              !.streamingActive = TRUE]

\* handleStreamEvent, case 'token'
OnTokenEventBad(w, ev) ==
    IF ev.token # <<>>
    THEN [w EXCEPT !.responseBuffer = ev.token,
                   !.stats.tokenCount = OrElse(ev.count, w.stats.tokenCount)]
    ELSE w

OnTokenEvent(w, ev) ==
    IF ev.token # <<>>
    THEN [w EXCEPT !.responseBuffer = w.responseBuffer \o ev.token,
                   !.stats.tokenCount = OrElse(ev.count, w.stats.tokenCount)]
    ELSE w

\* handleStreamEvent, case 'code_start'
OnCodeStartEvent(w, ev) ==
    [w EXCEPT !.activeCodeBlock = ev.id, !.currentCodeContent = <<>>]

\* handleStreamEvent, case 'code_token'
OnCodeTokenEvent(w, ev) ==
    IF ev.token # <<>>
    THEN [w EXCEPT !.currentCodeContent = w.currentCodeContent \o ev.token,
                   !.responseBuffer = w.responseBuffer \o ev.token]
    ELSE w

\* handleStreamEvent, case 'code_end'
OnCodeEndEventBad(w, ev) ==
    [w EXCEPT !.activeCodeBlock = 0,
              !.codeBlocks = IF ev.content # <<>>
                             THEN Append(w.codeBlocks, CodeBlock("", ev.content))
                             ELSE w.codeBlocks]

OnCodeEndEvent(w, ev) ==
    [w EXCEPT !.activeCodeBlock = 0,
              !.codeBlocks = IF ev.content # <<>>
                             THEN Append(w.codeBlocks,
                                         CodeBlock(ev.language, ev.content))
                             ELSE w.codeBlocks]

\* handleStreamEvent, case 'progress'
OnProgressEvent(w, ev) ==
    [w EXCEPT !.stats.tokenCount = OrElse(ev.count, w.stats.tokenCount),
              !.stats.tokensPerSecond = ev.tps,
              !.stats.elapsedTime = ev.elapsed]

\* handleStreamEvent, case 'metadata'
OnMetadataEvent(w, ev) ==
    [w EXCEPT !.stats.totalDuration = ev.duration,
              !.stats.tokensPerSecond = OrElse(ev.tps, w.stats.tokensPerSecond),
              !.stats.codeBlocksDetected = ev.detected,
              !.codeBlocks = IF ev.hasBlocks THEN ev.blocks ELSE w.codeBlocks]

\* handleStreamEvent, case 'done': `codeBlocks` is the value captured by the
\* closure, `codeBlocks.length > 0 ? codeBlocks : []`
OnDoneEvent(w) ==
    [w EXCEPT !.isStreaming = FALSE,
              !.isComplete = TRUE,
              !.streamingActive = FALSE,
              !.onCompleteCalls =
                  Append(w.onCompleteCalls,
                         [fullResponse |-> Trim(w.responseBuffer),
                          codeBlocks |-> w.closureCodeBlocks])]

\* handleStreamEvent
HandleStreamEventBad(w, ev) ==
    CASE ev.event = "start" -> OnStartEvent(w)
      [] ev.event = "token" -> OnTokenEvent(w, ev)
      [] ev.event = "code_start" -> OnCodeStartEvent(w, ev)
      [] ev.event = "code_token" -> OnCodeTokenEvent(w, ev)
      [] ev.event = "code_end" -> OnCodeEndEvent(w, ev)
      [] ev.event = "progress" -> OnProgressEvent(w, ev)
      [] ev.event = "metadata" -> OnMetadataEvent(w, ev)
      [] ev.event = "done" -> OnDoneEvent(w)
      [] ev.event = "error" -> OnErrorEvent(w, ev)
      [] OTHER -> w

HandleStreamEvent(w, ev) ==
    IF ~w.streamingActive THEN w
    ELSE CASE ev.event = "start" -> OnStartEvent(w)
           [] ev.event = "token" -> OnTokenEvent(w, ev)
           [] ev.event = "code_start" -> OnCodeStartEvent(w, ev)
           [] ev.event = "code_token" -> OnCodeTokenEvent(w, ev)
           [] ev.event = "code_end" -> OnCodeEndEvent(w, ev)
           [] ev.event = "progress" -> OnProgressEvent(w, ev)
           [] ev.event = "metadata" -> OnMetadataEvent(w, ev)
           [] ev.event = "done" -> OnDoneEvent(w)
           [] ev.event = "error" -> OnErrorEvent(w, ev)
           [] OTHER -> w

\* startStreaming, the try block up to the call of fetch
StartStreamingBad(w) ==
    IF w.retryCount >= maxRetries THEN [w EXCEPT !.error = FailedAfterMsg]
    ELSE [w EXCEPT !.isStreaming = TRUE,
                   !.error = NullError,
                   !.isComplete = FALSE,
                   !.streamingActive = TRUE,
                   !.reqs = Append(w.reqs, NewRequest),
                   !.abortController = Len(w.reqs) + 1]

StartStreaming(w) ==
    IF w.retryCount >= maxRetries THEN [w EXCEPT !.error = FailedAfterMsg]
    ELSE [w EXCEPT !.isStreaming = TRUE,
                   !.error = NullError,
                   !.isComplete = FALSE,
                   !.streamingActive = TRUE,
                   !.reqs = Append(Abort(w.reqs, w.abortController), NewRequest),
                   !.abortController = Len(w.reqs) + 1]

\* `retryCountRef.current < maxRetries && streamingActiveRef.current`
ShouldRetryBad(w) == w.retryCount <= maxRetries /\ w.streamingActive

ShouldRetry(w) == w.retryCount < maxRetries /\ w.streamingActive

\* the delay of the retry timer: `1000 * retryCountRef.current`
RetryDelayBad(k) == 1000

RetryDelay(k) == 1000 * k

\* startStreaming, the catch block for an error that is not an AbortError
CatchError(w, message) ==
    LET w1 == [w EXCEPT !.retryCount = w.retryCount + 1] IN
    IF ShouldRetry(w1)
    THEN [w1 EXCEPT !.error = RetryMsg(w1.retryCount),
                    !.timers[RetryDelay(w1.retryCount)] = @ + 1,
                    !.timerClosures[RetryDelay(w1.retryCount)] =
                        Append(@, w.closureCodeBlocks)]
    ELSE LET errorMsg == IF message # "" THEN message ELSE UnknownErrorMsg IN
         [w1 EXCEPT !.error = errorMsg,
                    !.isStreaming = FALSE,
                    !.streamingActive = FALSE,
                    !.onErrorCalls = Append(w1.onErrorCalls, errorMsg)]

\* the message of the AbortError a fetch or read rejects with once aborted
AbortMessage == "The operation was aborted."

\* startStreaming, the catch block: `if (err.name === 'AbortError') return`
CatchBad(w, name, message) == CatchError(w, message)

Catch(w, name, message) ==
    IF name = "AbortError" THEN w ELSE CatchError(w, message)

\* the handler that took w0 to w1 aborted a pending request
Aborted(w0, w1) ==
    \E r \in 1..Len(w0.reqs) : IsLive(w0.reqs[r]) /\ ~IsLive(w1.reqs[r])

\* the state after the task whose handler took w0 to w1, microtasks included:
\* the request the handler aborted rejects with an AbortError and the catch
\* block of its startStreaming runs
Settled(w0, w1) ==
    IF Aborted(w0, w1) THEN Catch(w1, "AbortError", AbortMessage) ELSE w1

\* the callback given to setTimeout in the catch block: it calls the
\* startStreaming of the attempt that failed, whose handleStreamEvent captured
\* `closure` as codeBlocks
RetryTimerCallback(w, closure) ==
    IF w.streamingActive
    THEN StartStreaming([w EXCEPT !.closureCodeBlocks = closure])
    ELSE w

\* the property of event.data that the handler of the event reads first, for
\* the events whose handler reads one before it assigns anything
FirstRead(name) ==
    CASE name = "token" -> "token"
      [] name = "code_token" -> "token"
      [] name = "code_start" -> "code_block_id"
      [] name = "error" -> "error"
      [] OTHER -> ""

\* handleStreamEvent throws: the event passed the streamingActiveRef guard, its
\* data is null and its handler reads a property of it
Throws(w, ev) ==
    w.streamingActive /\ ev.data = "null" /\ FirstRead(ev.event) # ""

TypeErrorMessage(ev) ==
    "Cannot read properties of null (reading '" \o FirstRead(ev.event) \o "')"

\* onEvent(ev) in the read loop of request r. An exception of the handler
\* leaves streamApiRequest, which reads no more, and is caught by the catch
\* block of startStreaming; otherwise the loop goes on to the next read.
OnEvent(w, r, ev) ==
    IF Throws(w, ev)
    THEN Catch([w EXCEPT !.reqs[r] = ClosedRequest], "TypeError",
               TypeErrorMessage(ev))
    ELSE [HandleStreamEvent(w, ev) EXCEPT
             !.reqs[r].events = w.reqs[r].events + 1]

\* stopStreaming
StopStreamingBad(w) ==
    [Cleanup([w EXCEPT !.streamingActive = FALSE]) EXCEPT !.isComplete = TRUE]

StopStreaming(w) ==
    [Cleanup([w EXCEPT !.streamingActive = FALSE, !.isStreaming = FALSE])
        EXCEPT !.isComplete = TRUE]

\* retryStreaming. The Try Again button calls the retryStreaming of the latest
\* render, whose startStreaming passes the handleStreamEvent of that render
\* (useCallback deps [onComplete, onError, codeBlocks]): its closure holds the
\* codeBlocks state of that render.
RetryStreaming(w) ==
    StartStreaming([w EXCEPT !.retryCount = 0, !.isComplete = FALSE,
                             !.error = NullError,
                             !.closureCodeBlocks = w.codeBlocks])

\* the cleanup function returned by the mount effect
UnmountEffect(w) == Cleanup([w EXCEPT !.streamingActive = FALSE])

----------------------------------------------------------------------------
(* History of the current run of BotResponse *)

NoStop == <<"none">>

\* a run begins when the user mounts the component or presses Try Again
NewRun(n) ==
    [run |-> n,
     issued |-> 0,            \* fetches issued in the run
     connFails |-> 0,         \* attempts of the run that failed before the body
     onlyConnFails |-> TRUE,  \* nothing but such failures happened in the run
     lastFailMsg |-> "",
     replacedLive |-> FALSE,  \* an attempt started while a request was pending
     reads |-> 0,             \* reader.read() calls of the current attempt
     onEventCalls |-> 0,      \* onEvent calls of the current attempt
     attemptEvents |-> <<>>,  \* events the current attempt applied
     stopAfter |-> NoStop,    \* attemptEvents when Stop was pressed
     aborted |-> FALSE,       \* the last step caught an AbortError
     errorSeen |-> FALSE]     \* an `error` event was applied in the run

Live(w) == {r \in 1..Len(w.reqs) : IsLive(w.reqs[r])}

\* the history after a call of startStreaming on w that issues a fetch
NewAttempt(h, w) ==
    [h EXCEPT !.issued = h.issued + 1,
              !.reads = 0,
              !.onEventCalls = 0,
              !.attemptEvents = <<>>,
              !.replacedLive = h.replacedLive \/ Live(w) # {},
              !.onlyConnFails = h.onlyConnFails /\ Live(w) = {}]

----------------------------------------------------------------------------
(* BotResponse as a state machine *)

\* the mount effect: startStreaming()
Mount ==
    /\ bot.phase = "new"
    /\ bot' = StartStreaming([bot EXCEPT !.phase = "mounted"])
    /\ hist' = NewAttempt(NewRun(1), bot)
    /\ UNCHANGED <<body, decVars, oldVars, appVars, genVars>>

\* the component unmounts: the effect's cleanup runs
Unmount ==
    /\ bot.phase = "mounted"
    /\ bot' = [Settled(bot, UnmountEffect(bot)) EXCEPT !.phase = "unmounted"]
    /\ hist' = [hist EXCEPT !.onlyConnFails = FALSE,
                            !.aborted = Aborted(bot, UnmountEffect(bot))]
    /\ UNCHANGED <<body, decVars, oldVars, appVars, genVars>>

\* the user presses Stop, rendered while isStreaming
Stop ==
    /\ bot.phase = "mounted"
    /\ bot.isStreaming
    /\ bot' = Settled(bot, StopStreaming(bot))
    /\ hist' = [hist EXCEPT !.onlyConnFails = FALSE,
                            !.stopAfter = hist.attemptEvents,
                            !.aborted = Aborted(bot, StopStreaming(bot))]
    /\ UNCHANGED <<body, decVars, oldVars, appVars, genVars>>

\* the user presses Try Again, rendered while error is set
TryAgain ==
    /\ bot.phase = "mounted"
    /\ bot.error # NullError
    /\ hist.run < MaxRuns
    /\ Len(bot.reqs) < MaxRequests
    /\ LET w == RetryStreaming([bot EXCEPT !.onCompleteCalls = <<>>,
                                           !.onErrorCalls = <<>>]) IN
       /\ bot' = Settled(bot, w)
       /\ hist' = [NewAttempt(NewRun(hist.run + 1), bot) EXCEPT
                     !.aborted = Aborted(bot, w)]
    /\ UNCHANGED <<body, decVars, oldVars, appVars, genVars>>

\* fetch resolves with an ok response that has a body: the first read is issued
FetchResolves(r) ==
    /\ bot.reqs[r].st = "fetching"
    /\ bot' = [bot EXCEPT !.reqs[r].st = "reading"]
    /\ hist' = [hist EXCEPT !.reads = 1, !.aborted = FALSE]
    /\ UNCHANGED <<body, decVars, oldVars, appVars, genVars>>

\* fetch rejects, or the response is not ok or has no body: streamApiRequest
\* throws and the catch block of startStreaming runs
FetchRejects(r, message) ==
    /\ bot.reqs[r].st = "fetching"
    /\ bot' = CatchError([bot EXCEPT !.reqs[r] = ClosedRequest], message)
    /\ hist' = [hist EXCEPT !.connFails = hist.connFails + 1,
                            !.lastFailMsg = message,
                            !.aborted = FALSE]
    /\ UNCHANGED <<body, decVars, oldVars, appVars, genVars>>

\* reader.read() resolves with a chunk that frames the event ev: onEvent(ev),
\* then the loop issues the next read
ReadResolves(r, ev) ==
    /\ bot.reqs[r].st = "reading"
    /\ bot.reqs[r].events < MaxEvents
    /\ ev.token # <<>> => Len(bot.responseBuffer) < MaxText
    /\ ev.event = "code_token" => Len(bot.currentCodeContent) < MaxText
    /\ bot' = OnEvent(bot, r, ev)
    /\ hist' = [hist EXCEPT
                  !.onlyConnFails = FALSE,
                  !.reads = hist.reads + (IF Throws(bot, ev) THEN 0 ELSE 1),
                  !.onEventCalls = hist.onEventCalls + 1,
                  !.lastFailMsg = IF Throws(bot, ev) THEN TypeErrorMessage(ev)
                                  ELSE hist.lastFailMsg,
                  !.attemptEvents = IF bot.streamingActive /\ ~Throws(bot, ev)
                                    THEN Append(hist.attemptEvents, ev.event)
                                    ELSE hist.attemptEvents,
                  !.errorSeen = hist.errorSeen
                                \/ (/\ bot.streamingActive
                                    /\ ~Throws(bot, ev)
                                    /\ ev.event = "error"),
                  !.aborted = FALSE]
    /\ UNCHANGED <<body, decVars, oldVars, appVars, genVars>>

\* reader.read() resolves with done: streamApiRequest returns
ReadEnds(r) ==
    /\ bot.reqs[r].st = "reading"
    /\ bot' = [bot EXCEPT !.reqs[r] = ClosedRequest]
    /\ hist' = [hist EXCEPT !.onlyConnFails = FALSE, !.aborted = FALSE]
    /\ UNCHANGED <<body, decVars, oldVars, appVars, genVars>>

\* reader.read() rejects with a network error: the catch block runs
ReadRejects(r) ==
    /\ bot.reqs[r].st = "reading"
    /\ bot' = CatchError([bot EXCEPT !.reqs[r] = ClosedRequest], ReadError)
    /\ hist' = [hist EXCEPT !.onlyConnFails = FALSE, !.lastFailMsg = ReadError,
                            !.aborted = FALSE]
    /\ UNCHANGED <<body, decVars, oldVars, appVars, genVars>>

\* a retry timer set with delay d fires
TimerFires(d) ==
    /\ bot.timers[d] > 0
    /\ bot.streamingActive => Len(bot.reqs) < MaxRequests
    /\ LET w == RetryTimerCallback(
                    [bot EXCEPT !.timers[d] = @ - 1,
                                !.timerClosures[d] = Tail(@)],
                    Head(bot.timerClosures[d])) IN
       /\ bot' = Settled(bot, w)
       /\ hist' = [(IF bot.streamingActive /\ bot.retryCount < maxRetries
                    THEN NewAttempt(hist, bot)
                    ELSE hist) EXCEPT !.aborted = Aborted(bot, w)]
    /\ UNCHANGED <<body, decVars, oldVars, appVars, genVars>>

BotNext ==
    \/ Mount
    \/ Unmount
    \/ Stop
    \/ TryAgain
    \/ \E r \in 1..Len(bot.reqs) : FetchResolves(r)
    \/ \E r \in 1..Len(bot.reqs), m \in ConnectErrors : FetchRejects(r, m)
    \/ \E r \in 1..Len(bot.reqs), ev \in BotEvents : ReadResolves(r, ev)
    \/ \E r \in 1..Len(bot.reqs) : ReadEnds(r)
    \/ \E r \in 1..Len(bot.reqs) : ReadRejects(r)
    \/ \E d \in Delays : TimerFires(d)

----------------------------------------------------------------------------
(* BotResponse fed whole response bodies *)

\* the bodies the server streams: the events of one response, in order
TextBody ==
    <<StartEvent, TokenEvent(<<"A">>), TokenEvent(<<"B">>), DoneEvent>>

CodeBody ==
    <<StartEvent, CodeStartEvent(1), CodeTokenEvent(<<"x">>),
      CodeTokenEvent(<<"y">>), CodeEndEvent("py", <<"x", "y">>), DoneEvent>>

StatsBody ==
    <<StartEvent, CountedTokenEvent(<<"A">>, 1), ProgressEvent(2, 5, 1),
      MetadataEvent(3, <<CodeBlock("js", <<"z">>)>>), DoneEvent>>

FailingBody ==
    <<StartEvent, CountedTokenEvent(<<" ">>, 1), CodeStartEvent(2),
      CodeTokenEvent(<<"x">>), CodeEndEvent("py", <<"x">>),
      ErrorEvent("model failed")>>

PaddedBody ==
    <<StartEvent, TokenEvent(<<" ">>), TokenEvent(<<"A">>), TokenEvent(<<NL>>),
      DoneEvent>>

HeadlessBody == <<TokenEvent(<<"A">>), ProgressEvent(1, 0, 0), DoneEvent>>

\* a token event that carries its text in `content`
ContentBody ==
    <<StartEvent, TokenEvent(<<"A">>), ContentTokenEvent(<<"C">>), DoneEvent>>

\* counts that go down: a progress report older than the last token
RegressBody ==
    <<StartEvent, CountedTokenEvent(<<"A">>, 2), ProgressEvent(1, 5, 1),
      DoneEvent>>

\* an error event without a message
SilentFailBody == <<StartEvent, TokenEvent(<<"A">>), ErrorEvent("")>>

\* events whose data line is not JSON
StringDataBody ==
    <<StartEvent, TokenEvent(<<"A">>), StringDataEvent("token"),
      StringDataEvent("code_token"), DoneEvent>>

\* an event whose data line is `null`
NullDataBody ==
    <<StartEvent, TokenEvent(<<"A">>), NullDataEvent("token"), DoneEvent>>

Bodies ==
    {TextBody, CodeBody, StatsBody, FailingBody, PaddedBody, HeadlessBody,
     ContentBody, RegressBody, SilentFailBody, StringDataBody, NullDataBody}

\* the event names of a body
EventNames(b) == [i \in 1..Len(b) |-> b[i].event]

\* fetch resolves with an ok response whose body will stream the events of b
BodyFetchResolves(r, b) ==
    /\ bot.reqs[r].st = "fetching"
    /\ bot' = [bot EXCEPT !.reqs[r].st = "reading"]
    /\ hist' = [hist EXCEPT !.reads = 1, !.aborted = FALSE]
    /\ body' = b
    /\ UNCHANGED <<decVars, oldVars, appVars, genVars>>

\* reader.read() resolves with a chunk that frames the next event of the body:
\* onEvent(ev), then the loop issues the next read
BodyReadResolves(r) ==
    /\ bot.reqs[r].st = "reading"
    /\ bot.reqs[r].events < Len(body)
    /\ LET ev == body[bot.reqs[r].events + 1] IN
       /\ bot' = OnEvent(bot, r, ev)
       /\ hist' = [hist EXCEPT
                     !.onlyConnFails = FALSE,
                     !.reads = hist.reads + (IF Throws(bot, ev) THEN 0 ELSE 1),
                     !.onEventCalls = hist.onEventCalls + 1,
                     !.lastFailMsg = IF Throws(bot, ev) THEN TypeErrorMessage(ev)
                                     ELSE hist.lastFailMsg,
                     !.attemptEvents =
                         IF bot.streamingActive /\ ~Throws(bot, ev)
                         THEN Append(hist.attemptEvents, ev.event)
                         ELSE hist.attemptEvents,
                     !.errorSeen = hist.errorSeen
                                   \/ (/\ bot.streamingActive
                                       /\ ~Throws(bot, ev)
                                       /\ ev.event = "error"),
                     !.aborted = FALSE]
    /\ UNCHANGED <<body, decVars, oldVars, appVars, genVars>>

\* BotResponse on a network that does not fail: one mounted component, its
\* Stop and Try Again buttons, the bodies of its requests, and the retry timers
\* set when the handler of an event throws
BodyNext ==
    \/ Mount
    \/ Unmount
    \/ Stop
    \/ TryAgain
    \/ \E r \in 1..Len(bot.reqs), b \in Bodies : BodyFetchResolves(r, b)
    \/ \E r \in 1..Len(bot.reqs) : BodyReadResolves(r)
    \/ \E r \in 1..Len(bot.reqs) : ReadEnds(r)
    \/ \E d \in Delays : TimerFires(d)

\* the bodies streamed over the failing network: each begins with `start`
FlakyBodies == {TextBody, CodeBody}

\* BotResponse fed whole bodies on a network that fails: a fetch or a read can
\* reject at any point of any attempt
FlakyNext ==
    \/ Mount
    \/ Unmount
    \/ Stop
    \/ TryAgain
    \/ \E r \in 1..Len(bot.reqs), b \in FlakyBodies : BodyFetchResolves(r, b)
    \/ \E r \in 1..Len(bot.reqs) : BodyReadResolves(r)
    \/ \E r \in 1..Len(bot.reqs) : ReadEnds(r)
    \/ \E r \in 1..Len(bot.reqs), m \in ConnectErrors : FetchRejects(r, m)
    \/ \E r \in 1..Len(bot.reqs) : ReadRejects(r)
    \/ \E d \in Delays : TimerFires(d)

----------------------------------------------------------------------------
(* The older BotResponse (DotLoader.tsx) *)

\* timers: the number of pending retry timers per delay that no Stop or
\* unmount has happened after; cancelled: the number of pending retry timers
\* per delay that were pending when Stop was pressed or the component unmounted
OldInitState ==
    [phase |-> "new",
     isStreaming |-> FALSE,
     error |-> NullError,
     isComplete |-> FALSE,
     responseBuffer |-> <<>>,
     retryCount |-> 0,
     abortController |-> 0,
     reqs |-> <<>>,
     timers |-> [d \in Delays |-> 0],
     cancelled |-> [d \in Delays |-> 0],
     onCompleteCalls |-> <<>>,
     onErrorCalls |-> <<>>]

\* React drops the state updates of an unmounted component; refs still change
KeepState(w0, w1) ==
    IF w0.phase = "unmounted"
    THEN [w1 EXCEPT !.isStreaming = w0.isStreaming,
                    !.error = w0.error,
                    !.isComplete = w0.isComplete]
    ELSE w1

\* cleanup
OldCleanup(w) ==
    [w EXCEPT !.reqs = Abort(w.reqs, w.abortController),
              !.abortController = 0,
              !.isStreaming = FALSE]

\* handleStreamEvent
OldHandleStreamEvent(w, ev) ==
    CASE ev.event = "start" ->
            [w EXCEPT !.isStreaming = TRUE,
                      !.error = NullError,
                      !.responseBuffer = <<>>,
                      !.retryCount = 0]
      [] ev.event = "token" ->
            IF ev.token # <<>>
            THEN [w EXCEPT !.responseBuffer = w.responseBuffer \o ev.token]
            ELSE w
      [] ev.event = "done" ->
            LET w1 == OldCleanup([w EXCEPT !.isStreaming = FALSE,
                                           !.isComplete = TRUE])
            IN  [w1 EXCEPT !.onCompleteCalls =
                               Append(w1.onCompleteCalls, Trim(w1.responseBuffer))]
      [] ev.event = "error" ->
            LET errorMsg == IF ev.error # "" THEN ev.error ELSE UnknownErrorMsg
                w1 == OldCleanup([w EXCEPT !.error = errorMsg,
                                           !.isStreaming = FALSE])
            IN  [w1 EXCEPT !.onErrorCalls = Append(w1.onErrorCalls, errorMsg)]
      [] OTHER -> w

\* startStreaming, the try block up to the call of fetch
OldStartStreaming(w) ==
    IF w.retryCount >= maxRetries THEN [w EXCEPT !.error = FailedAfterMsg]
    ELSE [w EXCEPT !.isStreaming = TRUE,
                   !.error = NullError,
                   !.reqs = Append(w.reqs, NewRequest),
                   !.abortController = Len(w.reqs) + 1]

\* startStreaming, the catch block for an error that is not an AbortError
OldCatchError(w, message) ==
    LET w1 == [w EXCEPT !.retryCount = w.retryCount + 1] IN
    IF w1.retryCount < maxRetries
    THEN [w1 EXCEPT !.error = RetryMsg(w1.retryCount),
                    !.timers[1000 * w1.retryCount] = @ + 1]
    ELSE LET errorMsg == IF message # "" THEN message ELSE UnknownErrorMsg IN
         [w1 EXCEPT !.error = errorMsg,
                    !.isStreaming = FALSE,
                    !.onErrorCalls = Append(w1.onErrorCalls, errorMsg)]

\* stopStreaming
OldStopStreaming(w) == [OldCleanup(w) EXCEPT !.isComplete = TRUE]

\* retryStreaming
OldRetryStreaming(w) ==
    OldStartStreaming([w EXCEPT !.retryCount = 0, !.isComplete = FALSE])

\* Stop or unmount: the retry timers pending now are the ones it should cancel
MarkCancelled(w) ==
    [w EXCEPT !.cancelled = [d \in Delays |-> w.cancelled[d] + w.timers[d]],
              !.timers = [d \in Delays |-> 0]]

\* the mount effect: startStreaming()
OldMount ==
    /\ old.phase = "new"
    /\ old' = OldStartStreaming([old EXCEPT !.phase = "mounted"])
    /\ oldRun' = 1
    /\ UNCHANGED <<decVars, botVars, appVars, genVars>>

\* the component unmounts: the effect's cleanup runs
OldUnmount ==
    /\ old.phase = "mounted"
    /\ old' = MarkCancelled([OldCleanup(old) EXCEPT !.phase = "unmounted"])
    /\ UNCHANGED <<oldRun, decVars, botVars, appVars, genVars>>

\* the user presses Stop, rendered while isStreaming
OldStop ==
    /\ old.phase = "mounted"
    /\ old.isStreaming
    /\ old' = MarkCancelled(OldStopStreaming(old))
    /\ UNCHANGED <<oldRun, decVars, botVars, appVars, genVars>>

\* the user presses Try Again, rendered while error is set
OldTryAgain ==
    /\ old.phase = "mounted"
    /\ old.error # NullError
    /\ oldRun < MaxRuns
    /\ Len(old.reqs) < MaxRequests
    /\ old' = OldRetryStreaming([old EXCEPT !.onCompleteCalls = <<>>,
                                           !.onErrorCalls = <<>>])
    /\ oldRun' = oldRun + 1
    /\ UNCHANGED <<decVars, botVars, appVars, genVars>>

\* fetch resolves with an ok response that has a body
OldFetchResolves(r) ==
    /\ old.reqs[r].st = "fetching"
    /\ old' = [old EXCEPT !.reqs[r].st = "reading"]
    /\ UNCHANGED <<oldRun, decVars, botVars, appVars, genVars>>

\* fetch rejects, or the response is not ok or has no body
OldFetchRejects(r, message) ==
    /\ old.reqs[r].st = "fetching"
    /\ old' = KeepState(old, OldCatchError([old EXCEPT !.reqs[r] = ClosedRequest],
                                           message))
    /\ UNCHANGED <<oldRun, decVars, botVars, appVars, genVars>>

\* reader.read() resolves with a chunk whose `data: ` line holds the event ev
OldReadResolves(r, ev) ==
    /\ old.reqs[r].st = "reading"
    /\ old.reqs[r].events < MaxEvents
    /\ ev.event = "token" => Len(old.responseBuffer) < MaxText
    /\ LET w == [old EXCEPT !.reqs[r].events = old.reqs[r].events + 1]
       IN  old' = KeepState(old, OldHandleStreamEvent(w, ev))
    /\ UNCHANGED <<oldRun, decVars, botVars, appVars, genVars>>

\* reader.read() resolves with done
OldReadEnds(r) ==
    /\ old.reqs[r].st = "reading"
    /\ old' = [old EXCEPT !.reqs[r] = ClosedRequest]
    /\ UNCHANGED <<oldRun, decVars, botVars, appVars, genVars>>

\* reader.read() rejects with a network error
OldReadRejects(r) ==
    /\ old.reqs[r].st = "reading"
    /\ old' = KeepState(old, OldCatchError([old EXCEPT !.reqs[r] = ClosedRequest],
                                           ReadError))
    /\ UNCHANGED <<oldRun, decVars, botVars, appVars, genVars>>

\* a retry timer fires: `setTimeout(startStreaming, ...)`
OldTimerFires(d) ==
    /\ old.timers[d] > 0
    /\ Len(old.reqs) < MaxRequests
    /\ old' = KeepState(old, OldStartStreaming([old EXCEPT !.timers[d] = @ - 1]))
    /\ UNCHANGED <<oldRun, decVars, botVars, appVars, genVars>>

\* a retry timer fires that was pending when Stop was pressed or the
\* component unmounted
OldCancelledTimerFires(d) ==
    /\ old.cancelled[d] > 0
    /\ Len(old.reqs) < MaxRequests
    /\ old' = KeepState(old, OldStartStreaming([old EXCEPT !.cancelled[d] = @ - 1]))
    /\ UNCHANGED <<oldRun, decVars, botVars, appVars, genVars>>

OldNext ==
    \/ OldMount
    \/ OldUnmount
    \/ OldStop
    \/ OldTryAgain
    \/ \E r \in 1..Len(old.reqs) : OldFetchResolves(r)
    \/ \E r \in 1..Len(old.reqs), m \in ConnectErrors : OldFetchRejects(r, m)
    \/ \E r \in 1..Len(old.reqs), ev \in Events : OldReadResolves(r, ev)
    \/ \E r \in 1..Len(old.reqs) : OldReadEnds(r)
    \/ \E r \in 1..Len(old.reqs) : OldReadRejects(r)
    \/ \E d \in Delays : OldTimerFires(d)
    \/ \E d \in Delays : OldCancelledTimerFires(d)

----------------------------------------------------------------------------
(* The home page (app/page.tsx) *)

\* the prompts the user types
Prompts == {"p1", "p2"}

\* useState<GenerateCompletionRequest | null>(null)
NoRequest == "null"

\* currentRequest, showResponse: the state of Home; sends: the prompts sent so
\* far; instances: the number of BotResponse instances React has mounted;
\* inst: the state of the BotResponse rendered, if any; fetched: the prompts
\* carried by the fetches issued so far
HomeInitState ==
    [currentRequest |-> NoRequest,
     showResponse |-> FALSE,
     sends |-> <<>>,
     instances |-> 0,
     inst |-> BotInitState,
     fetched |-> <<>>]

\* handleSend(msg), then the render it causes. The BotResponse element has
\* the same type and position in every render and no key: React mounts an
\* instance (its state initialised, its mount effect run) only when there is
\* none, and otherwise keeps the instance and hands it the new props.
HandleSend(msg) ==
    /\ Len(home.sends) < MaxSends
    /\ home' = IF home.inst.phase = "new"
               THEN [home EXCEPT
                       !.currentRequest = msg,
                       !.showResponse = TRUE,
                       !.sends = Append(home.sends, msg),
                       !.instances = home.instances + 1,
                       !.inst = StartStreaming([BotInitState EXCEPT
                                                  !.phase = "mounted"]),
                       !.fetched = Append(home.fetched, msg)]
               ELSE [home EXCEPT
                       !.currentRequest = msg,
                       !.showResponse = TRUE,
                       !.sends = Append(home.sends, msg)]
    /\ UNCHANGED <<chat, decVars, botVars, oldVars, genVars>>

\* fetch resolves with an ok response that has a body
HomeFetchResolves(r) ==
    /\ home.inst.reqs[r].st = "fetching"
    /\ home' = [home EXCEPT !.inst.reqs[r].st = "reading"]
    /\ UNCHANGED <<chat, decVars, botVars, oldVars, genVars>>

\* reader.read() resolves with a chunk that frames the event ev
HomeReadResolves(r, ev) ==
    /\ home.inst.reqs[r].st = "reading"
    /\ home.inst.reqs[r].events < MaxEvents
    /\ ev.token # <<>> => Len(home.inst.responseBuffer) < MaxText
    /\ ev.event = "code_token" => Len(home.inst.currentCodeContent) < MaxText
    /\ home' = [home EXCEPT
                  !.inst = [HandleStreamEvent(home.inst, ev) EXCEPT
                              !.reqs[r].events = home.inst.reqs[r].events + 1]]
    /\ UNCHANGED <<chat, decVars, botVars, oldVars, genVars>>

\* reader.read() resolves with done
HomeReadEnds(r) ==
    /\ home.inst.reqs[r].st = "reading"
    /\ home' = [home EXCEPT !.inst.reqs[r] = ClosedRequest]
    /\ UNCHANGED <<chat, decVars, botVars, oldVars, genVars>>

\* the user presses Stop, rendered while isStreaming
HomeStop ==
    /\ home.inst.phase = "mounted"
    /\ home.inst.isStreaming
    /\ home' = [home EXCEPT !.inst = StopStreaming(home.inst)]
    /\ UNCHANGED <<chat, decVars, botVars, oldVars, genVars>>

\* the user presses Try Again, rendered while error is set: the retryStreaming
\* of the latest render, whose startStreaming closes over the current
\* `request` prop
HomeTryAgain ==
    /\ home.inst.phase = "mounted"
    /\ home.inst.error # NullError
    /\ Len(home.inst.reqs) < MaxRequests
    /\ home' = [home EXCEPT !.inst = RetryStreaming(home.inst),
                            !.fetched = Append(home.fetched, home.currentRequest)]
    /\ UNCHANGED <<chat, decVars, botVars, oldVars, genVars>>

\* the home page on a network that does not fail
HomeNext ==
    \/ \E msg \in Prompts : HandleSend(msg)
    \/ \E r \in 1..Len(home.inst.reqs) : HomeFetchResolves(r)
    \/ \E r \in 1..Len(home.inst.reqs), ev \in BotEvents : HomeReadResolves(r, ev)
    \/ \E r \in 1..Len(home.inst.reqs) : HomeReadEnds(r)
    \/ HomeStop
    \/ HomeTryAgain

----------------------------------------------------------------------------
(* The chat page (pages/Chat.tsx) *)

\* a Message of the transcript: its content is a sequence of text pieces
Message(id, role, content) == [id |-> id, role |-> role, content |-> content]

CancelledText == <<"Request was cancelled.">>
ApologyText ==
    <<"I apologize, but I encountered an error processing your request. Please try again.">>
GreetingText == <<"Hello! I'm your AI assistant. How can I help you today?">>

\* StreamEvent 'content', whose text is in data.content
ContentEvent(t) == [NoData EXCEPT !.event = "content", !.content = t]

\* the events streamed to the chat page
ChatEvents ==
    {StartEvent, DoneEvent, TokenEvent(<<"A">>), ContentEvent(<<"B">>),
     ErrorEvent("model failed")}

\* the messages the user types
ChatInputs == {<<"hi">>}

\* messages, isLoading, abortController: the state of ChatBot (abortController
\* is the index of its request, 0 for null); reqs: the calls of
\* streamApiRequest made so far, each with the id of its assistant message;
\* nextId: the next value of Date.now(), taken to differ between messages;
\* failures: for every stream that failed since the transcript was last
\* cleared, how it failed and the text its assistant message held then
ChatInitState ==
    [messages |-> <<>>,
     isLoading |-> FALSE,
     abortController |-> 0,
     reqs |-> <<>>,
     nextId |-> 1,
     failures |-> <<>>]

\* the content of the message with the given id, <<>> if there is none
ContentOf(messages, id) ==
    IF \E i \in 1..Len(messages) : messages[i].id = id
    THEN messages[CHOOSE i \in 1..Len(messages) : messages[i].id = id].content
    ELSE <<>>

\* `prev.filter(msg => msg.id !== assistantMessageId)`
RECURSIVE WithoutId(_, _)
WithoutId(messages, id) ==
    IF messages = <<>> THEN <<>>
    ELSE IF Head(messages).id = id THEN WithoutId(Tail(messages), id)
    ELSE <<Head(messages)>> \o WithoutId(Tail(messages), id)

\* the handler given to streamApiRequest, for 'token' and 'content':
\* `msg.content + (event.data.token || event.data.content || '')`
AppendToMessage(messages, id, ev) ==
    [i \in 1..Len(messages) |->
        IF messages[i].id = id
        THEN [messages[i] EXCEPT
                !.content = @ \o (IF ev.token # <<>> THEN ev.token ELSE ev.content)]
        ELSE messages[i]]

\* the catch block of handleSendMessage, then its finally block, for the
\* request r failing with an error of the given name
ChatCatch(w, r, name) ==
    [w EXCEPT
        !.messages = Append(WithoutId(w.messages, w.reqs[r].assistantId),
                            Message(w.nextId, "assistant",
                                    IF name = "AbortError" THEN CancelledText
                                    ELSE ApologyText)),
        !.nextId = w.nextId + 1,
        !.reqs[r].st = "closed",
        !.failures = Append(w.failures,
                            [name |-> name,
                             partial |-> ContentOf(w.messages, w.reqs[r].assistantId)]),
        !.isLoading = FALSE,
        !.abortController = 0]

\* `if (abortController) abortController.abort()`: the pending fetch or read
\* of the request rejects with an AbortError and the catch block runs
ChatAbort(w) ==
    IF w.abortController # 0 /\ w.reqs[w.abortController].st # "closed"
    THEN ChatCatch(w, w.abortController, "AbortError")
    ELSE w

\* handleSendMessage(content), up to the call of fetch; the input is disabled
\* while isLoading
HandleSendMessage(content) ==
    /\ ~chat.isLoading
    /\ Len(chat.reqs) < MaxSends
    /\ LET w == ChatAbort(chat) IN
       chat' = [w EXCEPT
                  !.messages = w.messages
                               \o <<Message(w.nextId, "user", content),
                                     Message(w.nextId + 1, "assistant", <<>>)>>,
                  !.nextId = w.nextId + 2,
                  !.isLoading = TRUE,
                  !.reqs = Append(w.reqs, [st |-> "fetching",
                                           assistantId |-> w.nextId + 1,
                                           events |-> 0]),
                  !.abortController = Len(w.reqs) + 1]
    /\ UNCHANGED <<home, decVars, botVars, oldVars, genVars>>

\* fetch resolves with an ok response that has a body
ChatFetchResolves(r) ==
    /\ chat.reqs[r].st = "fetching"
    /\ chat' = [chat EXCEPT !.reqs[r].st = "reading"]
    /\ UNCHANGED <<home, decVars, botVars, oldVars, genVars>>

\* fetch rejects, or the response is not ok or has no body
ChatFetchRejects(r) ==
    /\ chat.reqs[r].st = "fetching"
    /\ chat' = ChatCatch(chat, r, "Error")
    /\ UNCHANGED <<home, decVars, botVars, oldVars, genVars>>

\* reader.read() resolves with a chunk that frames the event ev: the handler
\* appends the text of 'token' and 'content', throws on 'error' (the Error
\* leaves streamApiRequest and reaches the catch block), ignores the rest
ChatReadResolves(r, ev) ==
    /\ chat.reqs[r].st = "reading"
    /\ chat.reqs[r].events < MaxEvents
    /\ ev.event \in {"token", "content"} =>
          Len(ContentOf(chat.messages, chat.reqs[r].assistantId)) < MaxText
    /\ chat' =
          IF ev.event \in {"token", "content"}
          THEN [chat EXCEPT
                  !.messages = AppendToMessage(chat.messages,
                                               chat.reqs[r].assistantId, ev),
                  !.reqs[r].events = @ + 1]
          ELSE IF ev.event = "error" THEN ChatCatch(chat, r, "Error")
          ELSE [chat EXCEPT !.reqs[r].events = @ + 1]
    /\ UNCHANGED <<home, decVars, botVars, oldVars, genVars>>

\* reader.read() resolves with done: streamApiRequest returns, finally runs
ChatReadEnds(r) ==
    /\ chat.reqs[r].st = "reading"
    /\ chat' = [chat EXCEPT !.reqs[r].st = "closed",
                            !.isLoading = FALSE,
                            !.abortController = 0]
    /\ UNCHANGED <<home, decVars, botVars, oldVars, genVars>>

\* reader.read() rejects with a network error
ChatReadRejects(r) ==
    /\ chat.reqs[r].st = "reading"
    /\ chat' = ChatCatch(chat, r, "Error")
    /\ UNCHANGED <<home, decVars, botVars, oldVars, genVars>>

\* handleCancelRequest: the Cancel button, rendered while isLoading
HandleCancelRequest ==
    /\ chat.isLoading
    /\ chat' = ChatAbort(chat)
    /\ UNCHANGED <<home, decVars, botVars, oldVars, genVars>>

\* handleClearChat: abort() and setMessages([greeting]); the catch block of
\* an aborted request runs after the handler, on the cleared transcript
HandleClearChat ==
    /\ LET w == [chat EXCEPT
                    !.messages = <<Message(0, "assistant", GreetingText)>>,
                    !.failures = <<>>]
       IN chat' = [ChatAbort(w) EXCEPT !.failures = <<>>]
    /\ UNCHANGED <<home, decVars, botVars, oldVars, genVars>>

ChatNext ==
    \/ \E c \in ChatInputs : HandleSendMessage(c)
    \/ \E r \in 1..Len(chat.reqs) : ChatFetchResolves(r)
    \/ \E r \in 1..Len(chat.reqs) : ChatFetchRejects(r)
    \/ \E r \in 1..Len(chat.reqs), ev \in ChatEvents : ChatReadResolves(r, ev)
    \/ \E r \in 1..Len(chat.reqs) : ChatReadEnds(r)
    \/ \E r \in 1..Len(chat.reqs) : ChatReadRejects(r)
    \/ HandleCancelRequest
    \/ HandleClearChat

----------------------------------------------------------------------------
(* generateCompletionStream (api client) *)

sDataSp == <<"d", "a", "t", "a", ":", " ">>

\* the JSON texts the server writes: {"done":false} and {"done":true}
JsonNotDone ==
    <<"{", "\"", "d", "o", "n", "e", "\"", ":", "f", "a", "l", "s", "e", "}">>

JsonDone ==
    <<"{", "\"", "d", "o", "n", "e", "\"", ":", "t", "r", "u", "e", "}">>

\* a StreamingCompletionResponse, reduced to its `done` field; ok is FALSE for
\* the SyntaxError JSON.parse throws
GenChunk(done) == [ok |-> TRUE, done |-> done]

GenSyntaxError == [ok |-> FALSE, done |-> FALSE]

\* JSON.parse on the texts the server writes; any other text throws
GenJSONParse(s) ==
    IF s = JsonDone THEN GenChunk(TRUE)
    ELSE IF s = JsonNotDone THEN GenChunk(FALSE)
    ELSE GenSyntaxError

\* the lines of a body: a chunk that is not final, the final chunk, a data
\* line that is not JSON, an empty line
GenLines ==
    {sDataSp \o JsonNotDone, sDataSp \o JsonDone, sDataSp \o <<"{">>, <<>>}

RECURSIVE GenLineSeqs(_)
GenLineSeqs(n) ==
    IF n = 0 THEN {<<>>}
    ELSE GenLineSeqs(n - 1)
         \cup {Append(ls, l) : ls \in {x \in GenLineSeqs(n - 1) : Len(x) = n - 1},
                               l \in GenLines}

\* the bodies the server streams: up to MaxGenLines lines, each with its newline
GenStreams == {Join(ls) : ls \in GenLineSeqs(MaxGenLines)}

\* One iteration of `for (const line of lines)`. st = [calls, returned]: the
\* chunks passed to onChunk so far and whether `return` was executed; throwsOn
\* is the set of onChunk calls (by number) in which the callback throws. The
\* try block holds JSON.parse, the call of onChunk and `if (data.done) return`:
\* an exception of either of the first two goes to the catch, which warns and
\* lets the loop go on.
GenProcessLine(st, line, throwsOn) ==
    IF st.returned \/ ~StartsWith(line, sDataSp) THEN st
    ELSE LET data == GenJSONParse(Slice(line, 6)) IN
         IF ~data.ok THEN st
         ELSE LET st1 == [st EXCEPT !.calls = Append(st.calls, data)] IN
              IF Len(st1.calls) \in throwsOn THEN st1
              ELSE IF data.done THEN [st1 EXCEPT !.returned = TRUE]
              ELSE st1

RECURSIVE GenProcessLines(_, _, _)
GenProcessLines(st, lines, throwsOn) ==
    IF lines = <<>> THEN st
    ELSE GenProcessLines(GenProcessLine(st, Head(lines), throwsOn),
                         Tail(lines), throwsOn)

\* pc: "idle", "fetching" (awaiting fetch), "reading" (awaiting
\* reader.read()), "returned" (the promise resolved), "failed" (the outer
\* catch ran); onErrorCalls: the messages of the errors passed to onError
GenIdle ==
    [pc |-> "idle", stream |-> <<>>, throwsOn |-> {}, pos |-> 0,
     buffer |-> <<>>, calls |-> <<>>, onErrorCalls |-> <<>>]

GenNoBodyMessage == "No response body available"

\* fetch resolves with a response that has a body: getReader(), first read
GenFetchResolves ==
    /\ gen.pc = "fetching"
    /\ gen' = [gen EXCEPT !.pc = "reading"]
    /\ UNCHANGED <<decVars, botVars, oldVars, appVars>>

\* fetch resolves with a response without body (the throw of line 63), or
\* rejects: the outer catch passes the error to onError
GenFetchFails(message) ==
    /\ gen.pc = "fetching"
    /\ gen' = [gen EXCEPT !.pc = "failed",
                          !.onErrorCalls = Append(@, message)]
    /\ UNCHANGED <<decVars, botVars, oldVars, appVars>>

\* reader.read() resolves with the next n characters: one pass of the loop
\* body, left by `return` once a final chunk was passed to a callback that
\* returned
GenReadChunk(n) ==
    /\ gen.pc = "reading"
    /\ gen.pos + n <= Len(gen.stream)
    /\ LET segments == Split(gen.buffer \o SubSeq(gen.stream, gen.pos + 1,
                                                  gen.pos + n))
           lines == SubSeq(segments, 1, Len(segments) - 1)
           st == GenProcessLines([calls |-> gen.calls, returned |-> FALSE],
                                 lines, gen.throwsOn)
       IN gen' = [gen EXCEPT !.pos = gen.pos + n,
                             !.buffer = CarryOver(segments),
                             !.calls = st.calls,
                             !.pc = IF st.returned THEN "returned"
                                    ELSE "reading"]
    /\ UNCHANGED <<decVars, botVars, oldVars, appVars>>

\* reader.read() resolves with done = true: `if (done) break`
GenReadDone ==
    /\ gen.pc = "reading"
    /\ gen.pos = Len(gen.stream)
    /\ gen' = [gen EXCEPT !.pc = "returned"]
    /\ UNCHANGED <<decVars, botVars, oldVars, appVars>>

\* one call of generateCompletionStream on a body of the server, with a
\* callback that throws in the calls of throwsOn
GenInit ==
    /\ bot = BotInitState
    /\ hist = NewRun(0)
    /\ body = <<>>
    /\ old = OldInitState
    /\ oldRun = 0
    /\ home = HomeInitState
    /\ chat = ChatInitState
    /\ records = <<>>
    /\ stream = <<>>
    /\ twin = <<>>
    /\ pos = 0
    /\ buffer = <<>>
    /\ emitted = <<>>
    /\ consumedLines = <<>>
    /\ twinBuffer = <<>>
    /\ twinEmitted = <<>>
    /\ joined = 0
    /\ call = NoCall
    /\ dpc = "idle"
    /\ gen \in {[GenIdle EXCEPT !.pc = "fetching", !.stream = s, !.throwsOn = t] :
                  s \in GenStreams, t \in SUBSET (1..MaxGenLines)}

GenNext ==
    \/ GenFetchResolves
    \/ \E m \in {GenNoBodyMessage, FetchFailedMessage} : GenFetchFails(m)
    \/ \E n \in 1..MaxGenChunk : GenReadChunk(n)
    \/ GenReadDone

----------------------------------------------------------------------------
(* streamApiRequest as a state machine over one response body *)

\* streamApiRequest was called and awaits its fetch; records is the body the
\* server answers with; the components are not mounted
DecInit ==
    /\ bot = BotInitState
    /\ hist = NewRun(0)
    /\ body = <<>>
    /\ old = OldInitState
    /\ oldRun = 0
    /\ home = HomeInitState
    /\ chat = ChatInitState
    /\ records \in RecordSeqs
    /\ stream = EncodeAll(records, FALSE)
    /\ twin = EncodeAll(records, TRUE)
    /\ pos = 0
    /\ buffer = <<>>
    /\ emitted = <<>>
    /\ consumedLines = <<>>
    /\ twinBuffer = <<>>
    /\ twinEmitted = <<>>
    /\ joined = 0
    /\ call = NewCall
    /\ dpc = "fetching"
    /\ gen = GenIdle

\* fetch resolves with the response resp: the checks of lines 71-76, then
\* getReader() and the first reader.read()
FetchResponds(resp) ==
    /\ dpc = "fetching"
    /\ call' = [call EXCEPT !.response = resp, !.error = ResponseError(resp)]
    /\ dpc' = IF ResponseError(resp) = NoError THEN "reading" ELSE "rejected"
    /\ UNCHANGED <<records, stream, twin, pos, buffer, emitted, consumedLines,
                   twinBuffer, twinEmitted, joined, botVars, oldVars, appVars, genVars>>

\* fetch rejects (network failure): streamApiRequest rejects with its error
FetchFails ==
    /\ dpc = "fetching"
    /\ call' = [call EXCEPT !.error = FetchFailedMessage]
    /\ dpc' = "rejected"
    /\ UNCHANGED <<records, stream, twin, pos, buffer, emitted, consumedLines,
                   twinBuffer, twinEmitted, joined, botVars, oldVars, appVars, genVars>>

\* reader.read() resolves with the next n characters: one pass of the loop body
ReadChunk(n) ==
    /\ dpc = "reading"
    /\ pos + n <= Len(stream)
    /\ LET r == ProcessChunk(buffer, SubSeq(stream, pos + 1, pos + n))
           tw == ProcessChunk(twinBuffer, SubSeq(twin, pos + 1, pos + n))
       IN  /\ buffer' = r.buffer
           /\ emitted' = emitted \o r.events
           /\ consumedLines' = consumedLines \o r.lines
           /\ twinBuffer' = tw.buffer
           /\ twinEmitted' = twinEmitted \o tw.events
           /\ joined' = IF buffer # <<>> /\ r.lines # <<>> THEN joined + 1 ELSE joined
    /\ pos' = pos + n
    /\ UNCHANGED <<records, stream, twin, call, dpc, botVars, oldVars, appVars, genVars>>

\* reader.read() resolves with done = true: `if (done) break`
ReadDone ==
    /\ dpc = "reading"
    /\ pos = Len(stream)
    /\ dpc' = "done"
    /\ UNCHANGED <<records, stream, twin, pos, buffer, emitted, consumedLines,
                   twinBuffer, twinEmitted, joined, call, botVars, oldVars, appVars, genVars>>

DecNext ==
    \/ \E resp \in Responses : FetchResponds(resp)
    \/ FetchFails
    \/ \E n \in 1..MaxChunk : ReadChunk(n)
    \/ ReadDone

----------------------------------------------------------------------------
(* Specifications *)

\* both components before their mount effect has run; no body is being decoded
Init ==
    /\ bot = BotInitState
    /\ hist = NewRun(0)
    /\ body = <<>>
    /\ old = OldInitState
    /\ oldRun = 0
    /\ home = HomeInitState
    /\ chat = ChatInitState
    /\ records = <<>>
    /\ stream = <<>>
    /\ twin = <<>>
    /\ pos = 0
    /\ buffer = <<>>
    /\ emitted = <<>>
    /\ consumedLines = <<>>
    /\ twinBuffer = <<>>
    /\ twinEmitted = <<>>
    /\ joined = 0
    /\ call = NoCall
    /\ dpc = "idle"
    /\ gen = GenIdle

\* BotResponse (BotResponce.tsx)
Spec == Init /\ [][BotNext]_vars

\* streamApiRequest decoding one response body
SpecDecoder == DecInit /\ [][DecNext]_vars

\* the older BotResponse (DotLoader.tsx)
SpecOld == Init /\ [][OldNext]_vars

\* BotResponse (BotResponce.tsx) reading whole response bodies
SpecBody == Init /\ [][BodyNext]_vars

\* the home page (app/page.tsx)
SpecHome == Init /\ [][HomeNext]_vars

\* BotResponse fed whole bodies on a network that fails
SpecFlaky == Init /\ [][FlakyNext]_vars

\* generateCompletionStream (api client)
SpecGen == GenInit /\ [][GenNext]_vars

\* the chat page (pages/Chat.tsx)
SpecChat == Init /\ [][ChatNext]_vars

----------------------------------------------------------------------------
(* Claims about streamApiRequest, checked under SpecDecoder *)

\* the events the decoder passes to onEvent when the whole body is one chunk
OneChunkEvents == ProcessChunk(<<>>, stream).events

\* C1: chunk-boundary invariance. When the body has ended, the sequence of
\* events passed to onEvent equals the sequence produced when the same text
\* arrives as a single chunk, however the text was cut into chunks.
C1_ChunkBoundaryInvariance ==
    dpc = "done" => emitted = OneChunkEvents

\* C8: terminators are interchangeable and emission is exactly-once. When the
\* body has ended, every record of the body (each has an `event:` and a `data:`
\* line, followed by a blank line or by `data: [DONE]`) was passed to onEvent
\* exactly once, in order, with the same event name and data whichever
\* terminator followed it.
C8_ExactlyOncePerRecord ==
    (dpc = "done" /\ \A i \in 1..Len(records) : IsTerminated(records[i])) =>
        /\ Len(emitted) = Len(records)
        /\ \A i \in 1..Len(records) :
              /\ emitted[i].event = StringVal(<<records[i].ev>>)
              /\ emitted[i].data = ParseData(records[i].payload)

\* C9: malformed JSON after `data:` does not disturb decoding. At every point
\* the decoder has made exactly the onEvent calls it makes on the twin text, in
\* which every malformed payload is valid JSON; the events agree in name, id
\* and retry, and in data except that a record with a malformed payload
\* carries the raw trimmed payload text as a string.
C9_MalformedDataIsRawString ==
    /\ Len(emitted) = Len(twinEmitted)
    /\ \A i \in 1..Len(emitted) :
          /\ emitted[i].event = twinEmitted[i].event
          /\ emitted[i].id = twinEmitted[i].id
          /\ emitted[i].retry = twinEmitted[i].retry
          /\ emitted[i].data = IF twinEmitted[i].data = ObjectVal
                               THEN StringVal(PayloadBad)
                               ELSE twinEmitted[i].data

\* C9 witness: the body has ended, a record with a malformed payload was
\* emitted with the raw text as data, and a later record was emitted after it.
C9_Witness ==
    /\ dpc = "done"
    /\ Len(emitted) = 2
    /\ records[1].payload = PayloadBad
    /\ emitted[1].data = StringVal(PayloadBad)
    /\ emitted[2].data = NumberVal(2)

\* C10: carry-over invariant. The text received so far is exactly the lines
\* processed so far, each with its newline, followed by the buffer; neither a
\* processed line nor the buffer contains a newline.
C10_CarryOver ==
    /\ SubSeq(stream, 1, pos) = Join(consumedLines) \o buffer
    /\ \A i \in 1..Len(buffer) : buffer[i] # NL
    /\ \A k \in 1..Len(consumedLines) :
          \A i \in 1..Len(consumedLines[k]) : consumedLines[k][i] # NL

\* C10 witness: two lines that were cut by a chunk boundary have been
\* processed, and a third partial line is waiting in the buffer.
C10_Witness ==
    /\ joined >= 2
    /\ buffer # <<>>
    /\ consumedLines # <<>>

RECURSIVE IsSubsequence(_, _)
\* a can be obtained from b by deleting elements
IsSubsequence(a, b) ==
    IF a = <<>> THEN TRUE
    ELSE IF b = <<>> THEN FALSE
    ELSE IF Head(a) = Head(b) THEN IsSubsequence(Tail(a), Tail(b))
    ELSE IsSubsequence(a, Tail(b))

\* the event names of the onEvent calls made so far, and of the records
EmittedNames == [i \in 1..Len(emitted) |-> emitted[i].event]

RecordNames == [i \in 1..Len(records) |-> StringVal(<<records[i].ev>>)]

\* C12: dispatch order. The events passed to onEvent appear in the order of
\* their records in the byte stream (their names are the record names with
\* some left out, never reordered), and every read only appends to the calls
\* already made: the events of a later chunk come after those of every
\* earlier chunk, one call after the other.
C12_DispatchInStreamOrder ==
    /\ [](IsSubsequence(EmittedNames, RecordNames))
    /\ [][/\ Len(emitted') >= Len(emitted)
          /\ SubSeq(emitted', 1, Len(emitted)) = emitted]_vars

\* C12 witness: two records with different names were delivered, the second
\* from a later chunk than the first.
C12_Witness ==
    /\ dpc = "done"
    /\ Len(emitted) = 2
    /\ emitted[1].event # emitted[2].event
    /\ joined >= 1

\* C17: end-of-stream emission. When the body has ended and its chunking lost
\* nothing (the calls made are those of the one-chunk decoding), a last record
\* whose `event:` and `data:` lines were both received was passed to onEvent
\* although no terminator followed it, also when its data line had no newline.
C17_EndOfStreamEmits ==
    (/\ dpc = "done"
     /\ emitted = OneChunkEvents
     /\ ~IsTerminated(records[Len(records)])) =>
        /\ emitted # <<>>
        /\ emitted[Len(emitted)].event = StringVal(<<records[Len(records)].ev>>)
        /\ emitted[Len(emitted)].data = ParseData(records[Len(records)].payload)

\* C11: streamApiRequest fails fast on a bad response. Once the fetch has
\* resolved with a response that is not ok or has no body, the promise is
\* rejected with an error whose message names the HTTP status (response not
\* ok) or the missing body, nothing of the body was read, onEvent was never
\* called, and the call has issued exactly one fetch.
C11_FailFastOnBadResponse ==
    (call.response # NoResponse /\ (~call.response.ok \/ ~call.response.body)) =>
        /\ dpc = "rejected"
        /\ call.error = IF ~call.response.ok
                        THEN HttpErrorMessage(call.response)
                        ELSE NoBodyMessage
        /\ pos = 0
        /\ emitted = <<>>
        /\ call.fetches = 1

\* C11 witness: the server answered 500 with a body that holds records; the
\* call is rejected with the message naming the status.
C11_Witness ==
    /\ dpc = "rejected"
    /\ call.response.status = 500
    /\ call.response.body
    /\ call.error = "HTTP 500: Internal Server Error"
    /\ Len(stream) > 0
    /\ emitted = <<>>

----------------------------------------------------------------------------
(* Claims about BotResponse (BotResponce.tsx), checked under Spec *)

\* C2: retry is bounded for every failure pattern. In the run begun by the
\* mount of the component, whatever the attempts deliver before they fail,
\* the number of fetches issued never exceeds maxRetries.
C2_RetryBounded ==
    hist.run = 1 => hist.issued <= maxRetries

\* C3: retry bound, baseline scenario. In a run in which nothing happened but
\* attempts failing before their body was read, at most maxRetries fetches
\* are issued; once maxRetries attempts have failed, exactly maxRetries
\* fetches were issued, onError was called once, with the message of the last
\* failure, and the component has left the streaming state.
C3_ThreeFailuresThenTerminal ==
    hist.onlyConnFails =>
        /\ hist.issued <= maxRetries
        /\ hist.connFails <= maxRetries
        /\ hist.connFails = maxRetries =>
              /\ hist.issued = maxRetries
              /\ bot.onErrorCalls = <<hist.lastFailMsg>>
              /\ bot.error = hist.lastFailMsg
              /\ ~bot.isStreaming
              /\ ~bot.streamingActive
              /\ Live(bot) = {}
        /\ hist.connFails < maxRetries => bot.onErrorCalls = <<>>

\* C3 witness: three attempts failed before their body was read, the last
\* retry timer has fired, and the terminal error is shown.
C3_Witness ==
    /\ hist.onlyConnFails
    /\ hist.connFails = maxRetries
    /\ hist.issued = maxRetries
    /\ \A d \in Delays : bot.timers[d] = 0
    /\ bot.onErrorCalls = <<"Failed to fetch">>

\* C4: cancellation mid-stream. Once Stop was pressed after the attempt had
\* applied `start` and one `token`, no step calls onEvent, changes the text,
\* calls onComplete or onError, issues a read on a response body or issues a
\* fetch.
C4_StopMidStreamIsFinal ==
    [][(hist.stopAfter = <<"start", "token">> /\ hist'.stopAfter = hist.stopAfter)
        => /\ hist'.onEventCalls = hist.onEventCalls
           /\ hist'.reads = hist.reads
           /\ bot'.responseBuffer = bot.responseBuffer
           /\ bot'.onCompleteCalls = bot.onCompleteCalls
           /\ bot'.onErrorCalls = bot.onErrorCalls
           /\ Len(bot'.reqs) = Len(bot.reqs)
           /\ Live(bot') = {}]_vars

\* C4 witness: Stop was pressed after `start` and one `token`; the request is
\* settled, the text received so far is kept and no callback was called.
C4_Witness ==
    /\ hist.stopAfter = <<"start", "token">>
    /\ bot.responseBuffer = <<"A">>
    /\ hist.reads = 3
    /\ Live(bot) = {}
    /\ bot.isComplete
    /\ bot.onCompleteCalls = <<>>
    /\ bot.onErrorCalls = <<>>

\* C6: at most one request in flight. Every pending request is the one whose
\* controller abortControllerRef holds, so there is never more than one, and
\* an attempt that starts leaves no earlier request pending.
C6_AtMostOneInFlight ==
    /\ Cardinality(Live(bot)) <= 1
    /\ \A r \in Live(bot) : r = bot.abortController /\ r = Len(bot.reqs)

\* C6 witness: an attempt was started while the previous request was still
\* pending, and the new request is now the only one pending.
C6_Witness ==
    /\ hist.replacedLive
    /\ Live(bot) = {Len(bot.reqs)}
    /\ Len(bot.reqs) >= 2

\* C7: an `error` event is never retried. From the moment an `error` event
\* was applied until the user presses Try Again, no step issues a fetch or
\* sets a retry timer.
C7_ErrorEventNotRetried ==
    [][(hist.errorSeen /\ hist'.errorSeen)
        => /\ Len(bot'.reqs) = Len(bot.reqs)
           /\ \A d \in Delays : bot'.timers[d] <= bot.timers[d]]_vars

\* C7 witness: an `error` event was applied, then the open connection failed
\* with a transport error, while fewer than maxRetries failures were counted.
C7_Witness ==
    /\ hist.errorSeen
    /\ bot.onErrorCalls = <<UnknownErrorMsg, ReadError>>
    /\ bot.retryCount < maxRetries
    /\ Live(bot) = {}

\* the phases of the accumulator, from the flags the component renders
Streaming(w) == w.isStreaming

Complete(w) == w.isComplete

Errored(w) == w.error # NullError /\ ~w.isStreaming

IsPrefix(a, b) == Len(a) <= Len(b) /\ SubSeq(b, 1, Len(a)) = a

C21_NoErrorAfterStop ==
    (bot.phase = "mounted" /\ hist.stopAfter # NoStop) => bot.error = NullError

\* C22: cancellation is silent. In every step in which an attempt ends with an
\* AbortError, the catch block changes nothing: the retry counter is the one
\* the aborting handler left (0 after Try Again, unchanged otherwise), no retry
\* timer is added, the error state is the old one or the empty one the
\* handler set, and onError is not called.
C22_CancellationIsSilent ==
    [][hist'.aborted
        => /\ bot'.retryCount =
                 IF hist'.run # hist.run THEN 0 ELSE bot.retryCount
           /\ \A d \in Delays : bot'.timers[d] <= bot.timers[d]
           /\ bot'.error \in {bot.error, NullError}
           /\ bot'.onErrorCalls =
                 IF hist'.run # hist.run THEN <<>> ELSE bot.onErrorCalls]_vars

\* C22 witness: Stop was pressed while the attempt was reading, after a start
\* and a token: its read rejected with an AbortError, and there is no error,
\* no retry timer and no onError call.
C22_Witness ==
    /\ hist.aborted
    /\ hist.stopAfter = <<"start", "token">>
    /\ bot.retryCount = 0
    /\ bot.error = NullError
    /\ bot.onErrorCalls = <<>>
    /\ \A d \in Delays : bot.timers[d] = 0

\* C26: linear backoff. Every step that sets a retry timer sets it with the
\* delay k * 1000 ms, k being the retry counter after the failure, with
\* 1 <= k < maxRetries.
C26_LinearBackoff ==
    [][\A d \in Delays :
          bot'.timers[d] > bot.timers[d]
          => /\ bot'.retryCount = bot.retryCount + 1
             /\ bot'.retryCount \in 1..(maxRetries - 1)
             /\ d = bot'.retryCount * 1000]_vars

\* C26 witness: the second failure in a row has set a timer of 2000 ms, the
\* timer of 1000 ms of the first having fired.
C26_Witness ==
    /\ bot.retryCount = 2
    /\ bot.timers[2000] = 1
    /\ bot.timers[1000] = 0
    /\ hist.connFails = 2

\* C27: terminal callbacks are exclusive. Within one run, onComplete and
\* onError are called at most once in total.
C27_OneTerminalCallback ==
    Len(bot.onCompleteCalls) + Len(bot.onErrorCalls) <= 1

\* C28: every attempt that ends leaves the streaming state. When the mounted
\* component has no request and no retry timer pending, so that nothing more
\* happens until the user acts, it does not show the streaming state.
C28_EndedAttemptLeavesStreaming ==
    (/\ bot.phase = "mounted"
     /\ Live(bot) = {}
     /\ \A d \in Delays : bot.timers[d] = 0)
    => ~bot.isStreaming

\* C29: a stale retry timer cannot disturb a manual restart. In a run started
\* with Try Again in which no attempt has failed yet, every pending timer was
\* set in an earlier run: when one fires, no fetch is issued and no pending
\* request is aborted.
C29_StaleTimerHarmless ==
    [][(/\ hist.run >= 2
        /\ hist'.run = hist.run
        /\ hist.lastFailMsg = ""
        /\ \E d \in Delays : bot'.timers[d] < bot.timers[d])
       => /\ Len(bot'.reqs) = Len(bot.reqs)
          /\ Live(bot') = Live(bot)]_vars

\* C32: phase flags are exclusive and consistent. As long as the component
\* exists, isStreaming and isComplete are never both true, and isStreaming
\* equals streamingActiveRef, the guard that decides whether events are
\* applied.
C32_PhaseFlagsConsistent ==
    bot.phase # "unmounted"
    => /\ ~(bot.isStreaming /\ bot.isComplete)
       /\ bot.isStreaming <=> bot.streamingActive

\* C32 witness: Stop was pressed mid-stream, after a start and a token: the
\* component is complete, not streaming, and the guard is off.
C32_Witness ==
    /\ bot.phase = "mounted"
    /\ hist.stopAfter = <<"start", "token">>
    /\ bot.isComplete
    /\ ~bot.isStreaming
    /\ ~bot.streamingActive

----------------------------------------------------------------------------
(* Claims about the accumulator of BotResponse, checked under SpecBody *)

\* the attempt has processed every event of the body b
Processed(b) == body = b /\ hist.attemptEvents = EventNames(b)

\* C14: accumulator text scenario. Once BotResponse has processed start,
\* token("A"), token("B"), done, the text buffer is "AB" and onComplete was
\* called, once, with the text "AB".
C14_TextScenario ==
    Processed(TextBody) =>
        /\ bot.responseBuffer = <<"A", "B">>
        /\ Len(bot.onCompleteCalls) = 1
        /\ bot.onCompleteCalls[1].fullResponse = <<"A", "B">>

\* C14 witness: the four events were processed and the component is complete.
C14_Witness ==
    /\ Processed(TextBody)
    /\ bot.isComplete
    /\ ~bot.isStreaming
    /\ bot.responseBuffer = <<"A", "B">>

\* C15: accumulator code-block scenario. Once BotResponse has processed start,
\* code_start(1), code_token("x"), code_token("y"), code_end("py", "xy"), done,
\* codeBlocks holds exactly one block, with language "py" and content "xy",
\* and the text buffer contains "xy".
C15_CodeBlockScenario ==
    Processed(CodeBody) =>
        /\ Len(bot.codeBlocks) = 1
        /\ bot.codeBlocks[1].language = "py"
        /\ bot.codeBlocks[1].content = <<"x", "y">>
        /\ \E i \in 1..Len(bot.responseBuffer) - 1 :
              SubSeq(bot.responseBuffer, i, i + 1) = <<"x", "y">>

\* C15 witness: the six events were processed in the run that followed a
\* failed stream which had left a code block behind.
C15_Witness ==
    /\ Processed(CodeBody)
    /\ hist.run = 2
    /\ bot.codeBlocks = <<CodeBlock("py", <<"x", "y">>)>>
    /\ bot.isComplete

\* C16: completion callback payload. Once `done` was processed, onComplete was
\* called exactly once, with the trimmed text buffer and with the code blocks
\* accumulated from the code_end and metadata events of that stream, which
\* are the codeBlocks state.
C16_CompletionPayload ==
    (hist.attemptEvents # <<>>
     /\ hist.attemptEvents[Len(hist.attemptEvents)] = "done") =>
        /\ Len(bot.onCompleteCalls) = 1
        /\ bot.onCompleteCalls[1].fullResponse = Trim(bot.responseBuffer)
        /\ bot.onCompleteCalls[1].codeBlocks = bot.codeBlocks

\* C19: a `start` event resets the whole accumulator. In the state after a
\* step that processes `start`, the text and codeBlocks are empty, the stats
\* have their initial values, the retry counter is 0 and the component is
\* streaming.
C19_StartResetsAccumulator ==
    [][hist'.attemptEvents = Append(hist.attemptEvents, "start")
        => /\ bot'.responseBuffer = <<>>
           /\ bot'.codeBlocks = <<>>
           /\ bot'.stats = InitialStats
           /\ bot'.retryCount = 0
           /\ bot'.isStreaming
           /\ ~bot'.isComplete
           /\ bot'.error = NullError]_vars

\* C23: token payload alternatives. Once BotResponse has processed start,
\* token("A"), a token event whose payload has `content` "C" and no `token`,
\* and done, the text is "AC".
C23_ContentFieldAppended ==
    Processed(ContentBody) => bot.responseBuffer = <<"A", "C">>

\* C24: tokenCount is monotone. No step that passes an event to the component
\* decreases stats.tokenCount.
C24_TokenCountMonotone ==
    [][hist'.onEventCalls = hist.onEventCalls + 1
        => bot'.stats.tokenCount >= bot.stats.tokenCount]_vars

\* the event the read of request r delivers next
NextEvent(r) == body[bot.reqs[r].events + 1]

\* this step passes to the component the next event of the body of request r,
\* and the handler does not drop it at the streamingActiveRef guard
Delivers(r) ==
    /\ bot.reqs[r].st = "reading"
    /\ bot.reqs[r].events < Len(body)
    /\ bot.streamingActive
    /\ hist'.onEventCalls = hist.onEventCalls + 1

\* C25: application error handling. In every step in which the streaming
\* component processes an `error` event, onError is called with the payload's
\* error message, or with "Unknown streaming error" when it has none, the
\* error state holds that message, and the component is not streaming.
C25_ErrorEventHandling ==
    [][\A r \in 1..Len(bot.reqs) :
          (Delivers(r) /\ bot.isStreaming /\ NextEvent(r).event = "error")
          => LET m == NextEvent(r).error
                 errorMsg == IF m # "" THEN m ELSE "Unknown streaming error"
             IN /\ bot'.onErrorCalls = Append(bot.onErrorCalls, errorMsg)
                /\ bot'.error = errorMsg
                /\ ~bot'.isStreaming]_vars

\* C25 witness: after start and a token, an `error` event without a message
\* was processed: onError was called with "Unknown streaming error".
C25_Witness ==
    /\ Processed(SilentFailBody)
    /\ bot.onErrorCalls = <<"Unknown streaming error">>
    /\ bot.error = "Unknown streaming error"
    /\ ~bot.isStreaming

\* what the accumulator holds and shows
Accumulator(w) ==
    <<w.responseBuffer, w.currentCodeContent, w.codeBlocks, w.activeCodeBlock,
      w.stats, w.isStreaming, w.isComplete, w.error>>

\* C30: a non-object payload is harmless. In every step that passes to the
\* streaming component a `token` or `code_token` event whose data is a raw
\* string or null, the accumulator is unchanged, the retry counter is not
\* incremented, no retry timer is set and onError is not called.
C30_NonObjectPayloadHarmless ==
    [][\A r \in 1..Len(bot.reqs) :
          (/\ Delivers(r)
           /\ NextEvent(r).data # "object"
           /\ NextEvent(r).event \in {"token", "code_token"})
          => /\ Accumulator(bot') = Accumulator(bot)
             /\ bot'.retryCount = bot.retryCount
             /\ bot'.timers = bot.timers
             /\ bot'.onErrorCalls = bot.onErrorCalls]_vars

----------------------------------------------------------------------------
(* Claims about retries of BotResponse, checked under SpecFlaky *)

\* the text of the token and code_token events among the first n events of b
RECURSIVE TextOf(_, _)
TextOf(b, n) ==
    IF n = 0 THEN <<>>
    ELSE TextOf(b, n - 1)
         \o (IF b[n].event \in {"token", "code_token"} THEN b[n].token
             ELSE <<>>)

\* the current attempt has processed `done`
DoneProcessed ==
    /\ hist.attemptEvents # <<>>
    /\ hist.attemptEvents[Len(hist.attemptEvents)] = "done"

\* C31: no duplicated text after a retry. Every body beginning with `start`,
\* when an attempt of a run that is not its first processes `done`, the text
\* passed to onComplete is the trimmed text of the tokens of that attempt.
C31_NoDuplicatedText ==
    (hist.issued >= 2 /\ DoneProcessed)
    => /\ bot.onCompleteCalls # <<>>
       /\ bot.onCompleteCalls[Len(bot.onCompleteCalls)].fullResponse =
              Trim(TextOf(body, Len(hist.attemptEvents)))

\* C31 witness: a read of the first attempt failed, and the second attempt
\* of the run processed start, token("A"), token("B"), done: onComplete was
\* called with "AB".
C31_Witness ==
    /\ hist.issued = 2
    /\ hist.lastFailMsg = ReadError
    /\ Processed(TextBody)
    /\ [i \in 1..Len(bot.onCompleteCalls) |->
          bot.onCompleteCalls[i].fullResponse] = <<<<"A", "B">>>>

----------------------------------------------------------------------------
(* Claims about the home page (app/page.tsx), checked under SpecHome *)

\* C13: one accumulator per user-initiated request. Every step in which the
\* user sends a new prompt mounts a BotResponse instance of its own, whose
\* text and code blocks are empty and whose stats are the initial ones, and
\* issues a fetch that carries the prompt sent.
C13_FreshAccumulatorPerSend ==
    [][(/\ Len(home'.sends) = Len(home.sends) + 1
        /\ home'.currentRequest # home.currentRequest)
        => /\ home'.instances = home.instances + 1
           /\ home'.inst.responseBuffer = <<>>
           /\ home'.inst.codeBlocks = <<>>
           /\ home'.inst.stats = InitialStats
           /\ home'.fetched = Append(home.fetched, home'.currentRequest)]_vars

----------------------------------------------------------------------------
(* Claims about the chat page (pages/Chat.tsx), checked under SpecChat *)

\* C20: partial output survives an error. For every stream that failed (an
\* `error` event, a transport failure or a cancellation) after text had been
\* appended to its assistant message, some message of the transcript still
\* holds that text.
C20_PartialOutputSurvives ==
    \A k \in 1..Len(chat.failures) :
        chat.failures[k].partial # <<>> =>
            \E i \in 1..Len(chat.messages) :
                IsPrefix(chat.failures[k].partial, chat.messages[i].content)

\* this step is Clear chat pressed while a request is pending: the request is
\* settled by the step, and the transcript it leaves has no user message
\* (every other step that settles a request keeps the message of its user)
ClearsWhileStreaming ==
    /\ \E r \in 1..Len(chat.reqs) :
          chat.reqs[r].st # "closed" /\ chat'.reqs[r].st = "closed"
    /\ \A i \in 1..Len(chat'.messages) : chat'.messages[i].role # "user"

\* C33: Clear chat wins over an in-flight request. Once the request aborted by
\* Clear chat has settled, the transcript is the greeting message alone.
C33_ClearChatWins ==
    [][ClearsWhileStreaming
        => chat'.messages = <<Message(0, "assistant", GreetingText)>>]_vars

----------------------------------------------------------------------------
(* Claims about the older BotResponse (DotLoader.tsx), checked under SpecOld *)

\* C5: cancellation cancels a pending retry. When a retry timer fires that was
\* pending at the time Stop was pressed or the component unmounted, no fetch
\* is issued.
C5_CancelledTimerIssuesNothing ==
    [][(\E d \in Delays : old'.cancelled[d] < old.cancelled[d])
        => Len(old'.reqs) = Len(old.reqs)]_vars

----------------------------------------------------------------------------
(* Claims about generateCompletionStream, checked under SpecGen *)

\* C34: generateCompletionStream stops at the final chunk. No chunk is passed
\* to onChunk after a chunk with done = true.
C34_StopsAtFinalChunk ==
    \A i \in 1..Len(gen.calls) : gen.calls[i].done => i = Len(gen.calls)

====
